---- MODULE Spec2Model ----
(***************************************************************************)
(* Model of the document chunking / payload / response-normalization /    *)
(* prompt helpers of backend/app/utils/document_processing.py, of the     *)
(* file parsers of backend/app/utils/file_parsers.py, and of the upload   *)
(* and chat handlers (api/routes.py, services/document_chat_service.py).  *)
(*                                                                         *)
(* Spec applies one helper per request to fresh inputs; SpecService runs  *)
(* one request at a time through a route and the service; SpecConcurrent  *)
(* interleaves the pipeline stages of several requests.                   *)
(*                                                                         *)
(* A value decoded from the JSON of a search response is tagged as well;  *)
(* a call that can raise gives Returned(value) or Raised(exception).      *)
(*                                                                         *)
(* A Python str is a sequence of one-character strings.  A Python value   *)
(* whose type the code inspects or converts (str(), isinstance) is a      *)
(* tagged record [type, val].  A dict is a function from its keys.        *)
(***************************************************************************)
EXTENDS Integers, Sequences, FiniteSets, TLC

VARIABLES pc, content, chunk_size, chunks, document_name, metadata, payload,
          result_data, logger, warned, error, normalized, query, prompt,
          file, calls, collections, result, http, requests, service

\* the state of a chat request
chatVars == <<result_data, logger, warned, error, normalized, query, prompt>>

\* the state of a request in its route handler: the uploaded file, the calls
\* made to the remote services, what the service method returned, the HTTP
\* response
handlerVars == <<file, calls, result, http>>

\* what outlives a request: the collections of the remote service, the
\* requests in flight, the service object they share
sharedVars == <<collections, requests, service>>

vars == <<pc, content, chunk_size, chunks, document_name, metadata, payload,
          chatVars, handlerVars, sharedVars>>

--------------------------------------------------------------------------
(* Bounds of the model *)

\* longest text handed to the chunkers with every character free
MaxLen == 6
\* most paragraphs or sentences in a text built from whole units
MaxUnits == 4
\* largest chunk_size tried (the smallest is -1)
MaxSize == 5
\* longest chunk list handed to build_document_payload in every order
MaxChunks == 3

\* most items in each list of a well-formed response
MaxFan == 2

\* metadata records of a raw chunk
MaxItems == 2

\* pages of an uploaded PDF
MaxPages == 2

\* characters of an uploaded text file
MaxText == 4

\* collections the remote service holds
MaxCollections == 1

\* requests in flight at once
NumRequests == 2

--------------------------------------------------------------------------
(* Python str helpers *)

\* characters str.isspace() / the regex class \s accept (those of the alphabet)
Whitespace == {" ", "\n", "\t"}

IsSpace(c) == c \in Whitespace

\* the regex class [.!?]
SentenceEnd == {".", "!", "?"}

\* the paragraph separator "\n\n"
BlankLine == <<"\n", "\n">>

RECURSIVE LStrip(_)
LStrip(s) == IF s # <<>> /\ IsSpace(Head(s)) THEN LStrip(Tail(s)) ELSE s

RECURSIVE RStrip(_)
RStrip(s) ==
    IF s # <<>> /\ IsSpace(s[Len(s)]) THEN RStrip(SubSeq(s, 1, Len(s) - 1)) ELSE s

\* str.strip()
Strip(s) == RStrip(LStrip(s))

StartsWith(s, prefix) ==
    Len(prefix) <= Len(s) /\ SubSeq(s, 1, Len(prefix)) = prefix

\* str.split(sep): leftmost, non-overlapping occurrences of sep; cur is the
\* piece being read
RECURSIVE SplitAcc(_, _, _)
SplitAcc(s, sep, cur) ==
    IF s = <<>> THEN <<cur>>
    ELSE IF StartsWith(s, sep)
         THEN <<cur>> \o SplitAcc(SubSeq(s, Len(sep) + 1, Len(s)), sep, <<>>)
         ELSE SplitAcc(Tail(s), sep, Append(cur, Head(s)))

Split(s, sep) == SplitAcc(s, sep, <<>>)

\* sep.join(parts)
RECURSIVE Join(_, _)
Join(parts, sep) ==
    IF parts = <<>> THEN <<>>
    ELSE IF Len(parts) = 1 THEN parts[1]
    ELSE parts[1] \o sep \o Join(Tail(parts), sep)

\* the lists of a list of lists, one after the other (list.extend in a loop,
\* or the characters of several strings read in order)
RECURSIVE Flatten(_)
Flatten(ss) == IF ss = <<>> THEN <<>> ELSE Head(ss) \o Flatten(Tail(ss))

\* re.split(r"(?<=[.!?])\s+", s): a match starts at a whitespace character
\* that directly follows a sentence end and takes the whole whitespace run
RECURSIVE ReSplitAcc(_, _)
ReSplitAcc(s, cur) ==
    IF s = <<>> THEN <<cur>>
    ELSE IF cur # <<>> /\ cur[Len(cur)] \in SentenceEnd /\ IsSpace(Head(s))
         THEN <<cur>> \o ReSplitAcc(LStrip(s), <<>>)
         ELSE ReSplitAcc(Tail(s), Append(cur, Head(s)))

\* SplitSentences with a pattern that takes the sentence end into the
\* match: the mark is lost with the whitespace
SplitSentencesTakesMark(s) ==
    LET ps == ReSplitAcc(s, <<>>) IN
    [i \in 1..Len(ps) |->
        IF i < Len(ps) THEN SubSeq(ps[i], 1, Len(ps[i]) - 1) ELSE ps[i]]

SplitSentences(s) == ReSplitAcc(s, <<>>)

--------------------------------------------------------------------------
(* _chunk_by_sentences *)

\* the state of a packing loop before its first iteration
LoopInit == [chunks |-> <<>>, current_chunk |-> <<>>, current_size |-> 0]

\* SentenceStep with the size test on the new sentence alone, the running
\* size forgotten
SentenceStepIgnoresRunningSize(st, sentence, size) ==
    LET sentence_size == Len(sentence) IN
    IF sentence_size > size /\ st.current_chunk # <<>>
    THEN [chunks |-> Append(st.chunks, Join(st.current_chunk, <<" ">>)),
          current_chunk |-> <<sentence>>,
          current_size |-> sentence_size]
    ELSE [chunks |-> st.chunks,
          current_chunk |-> Append(st.current_chunk, sentence),
          current_size |-> st.current_size + sentence_size]

\* one iteration of the sentence loop
SentenceStep(st, sentence, size) ==
    LET sentence_size == Len(sentence) IN
    IF st.current_size + sentence_size > size /\ st.current_chunk # <<>>
    THEN [chunks |-> Append(st.chunks, Join(st.current_chunk, <<" ">>)),
          current_chunk |-> <<sentence>>,
          current_size |-> sentence_size]
    ELSE [chunks |-> st.chunks,
          current_chunk |-> Append(st.current_chunk, sentence),
          current_size |-> st.current_size + sentence_size]

RECURSIVE SentenceLoop(_, _, _)
SentenceLoop(st, sentences, size) ==
    IF sentences = <<>> THEN st
    ELSE SentenceLoop(SentenceStep(st, Head(sentences), size), Tail(sentences), size)

_chunk_by_sentences(text, size) ==
    LET sentences == SplitSentences(text)
        st == SentenceLoop(LoopInit, sentences, size)
        out == IF st.current_chunk # <<>>
               THEN Append(st.chunks, Join(st.current_chunk, <<" ">>))
               ELSE st.chunks
    IN IF out # <<>> THEN out ELSE <<text>>

--------------------------------------------------------------------------
(* chunk_document *)

StripAll(ps) == [i \in 1..Len(ps) |-> Strip(ps[i])]

NonEmpty(p) == p # <<>>

\* Paragraphs without the "if p.strip()" filter: blank pieces are kept
ParagraphsKeepsBlank(text) == StripAll(Split(text, BlankLine))

\* [p.strip() for p in content.split("\n\n") if p.strip()]
Paragraphs(text) == SelectSeq(StripAll(Split(text, BlankLine)), NonEmpty)

\* ParagraphStep whose flush starts the new chunk empty: the paragraph that
\* did not fit is lost
ParagraphStepDropsPara(st, para, size) ==
    LET para_size == Len(para) IN
    IF st.current_size + para_size > size /\ st.current_chunk # <<>>
    THEN [chunks |-> Append(st.chunks, Join(st.current_chunk, BlankLine)),
          current_chunk |-> <<>>,
          current_size |-> 0]
    ELSE [chunks |-> st.chunks,
          current_chunk |-> Append(st.current_chunk, para),
          current_size |-> st.current_size + para_size]

\* ParagraphStep whose flush forgets to restart the running size
ParagraphStepKeepsSize(st, para, size) ==
    LET para_size == Len(para) IN
    IF st.current_size + para_size > size /\ st.current_chunk # <<>>
    THEN [chunks |-> Append(st.chunks, Join(st.current_chunk, BlankLine)),
          current_chunk |-> <<para>>,
          current_size |-> st.current_size + para_size]
    ELSE [chunks |-> st.chunks,
          current_chunk |-> Append(st.current_chunk, para),
          current_size |-> st.current_size + para_size]

\* one iteration of the paragraph loop
ParagraphStep(st, para, size) ==
    LET para_size == Len(para) IN
    IF st.current_size + para_size > size /\ st.current_chunk # <<>>
    THEN [chunks |-> Append(st.chunks, Join(st.current_chunk, BlankLine)),
          current_chunk |-> <<para>>,
          current_size |-> para_size]
    ELSE [chunks |-> st.chunks,
          current_chunk |-> Append(st.current_chunk, para),
          current_size |-> st.current_size + para_size]

RECURSIVE ParagraphLoop(_, _, _)
ParagraphLoop(st, paragraphs, size) ==
    IF paragraphs = <<>> THEN st
    ELSE ParagraphLoop(ParagraphStep(st, Head(paragraphs), size), Tail(paragraphs), size)

\* chunk_document without the flush of the last running chunk
chunk_document_NoLastFlush(text, size) ==
    LET paragraphs == Paragraphs(text)
        st == ParagraphLoop(LoopInit, paragraphs, size)
        out == st.chunks
    IN IF out = <<>> THEN _chunk_by_sentences(text, size) ELSE out

\* chunk_document without its fallback: what the paragraph tier gave is
\* returned as it is
chunk_document_NoFallback(text, size) ==
    LET paragraphs == Paragraphs(text)
        st == ParagraphLoop(LoopInit, paragraphs, size)
    IN IF st.current_chunk # <<>>
       THEN Append(st.chunks, Join(st.current_chunk, BlankLine))
       ELSE st.chunks

chunk_document(text, size) ==
    LET paragraphs == Paragraphs(text)
        st == ParagraphLoop(LoopInit, paragraphs, size)
        out == IF st.current_chunk # <<>>
               THEN Append(st.chunks, Join(st.current_chunk, BlankLine))
               ELSE st.chunks
    IN IF out = <<>> THEN _chunk_by_sentences(text, size) ELSE out

--------------------------------------------------------------------------
(* Python values: str(), isinstance() and dict.get() *)

PyStr(s) == [type |-> "str", val |-> s]

PyInt(n) == [type |-> "int", val |-> n]

PyList(l) == [type |-> "list", val |-> l]

PyNone == [type |-> "none"]

PyDict(pairs) == [type |-> "dict", val |-> pairs]

\* str() writes integers in base 10
Base == 10

Digit == <<"0", "1", "2", "3", "4", "5", "6", "7", "8", "9">>

\* str(n) of an int n >= 0
RECURSIVE IntToStr(_)
IntToStr(n) ==
    IF n < Base THEN <<Digit[n + 1]>>
    ELSE IntToStr(n \div Base) \o <<Digit[(n % Base) + 1]>>

\* str(v)
StrOf(v) ==
    CASE v.type = "str" -> v.val
      [] v.type = "int" ->
            IF v.val < 0 THEN <<"-">> \o IntToStr(0 - v.val) ELSE IntToStr(v.val)
      [] v.type = "none" -> <<"N", "o", "n", "e">>

\* d.get(k, default)
Get(d, k, default) == IF k \in DOMAIN d THEN d[k] ELSE default

\* d[k] = v
DictSet(d, k, v) == [x \in (DOMAIN d) \cup {k} |-> IF x = k THEN v ELSE d[x]]

--------------------------------------------------------------------------
(* build_document_payload *)

UserUpload == <<"u", "s", "e", "r", "_", "u", "p", "l", "o", "a", "d">>

\* {"key": key, "value": [str(value)]} for key, value in metadata.items();
\* the dict is the list of its (key, value) pairs in insertion order
CustomItems(pairs) ==
    [i \in 1..Len(pairs) |->
        [key |-> pairs[i][1], value |-> PyList(<<PyStr(StrOf(pairs[i][2]))>>)]]

\* DocumentMetadata with the caller's values stored as they come, without str()
DocumentMetadataRawValues(name, meta) ==
    LET metadata_items ==
            << [key |-> "name", value |-> PyList(<<PyStr(name)>>)],
               [key |-> "source", value |-> PyList(<<PyStr(UserUpload)>>)] >>
    IN IF meta.type = "dict" /\ meta.val # <<>>
       THEN metadata_items \o
                [i \in 1..Len(meta.val) |->
                    [key |-> meta.val[i][1], value |-> PyList(<<meta.val[i][2]>>)]]
       ELSE metadata_items

\* the document-level metadata_items
DocumentMetadata(name, meta) ==
    LET metadata_items ==
            << [key |-> "name", value |-> PyList(<<PyStr(name)>>)],
               [key |-> "source", value |-> PyList(<<PyStr(UserUpload)>>)] >>
    IN IF meta.type = "dict" /\ meta.val # <<>>
       THEN metadata_items \o CustomItems(meta.val)
       ELSE metadata_items

\* ChunkEntries numbering the chunks from 1
ChunkEntriesFromOne(cs) ==
    [i \in 1..Len(cs) |->
        [content |-> cs[i],
         metadata |-> << [key |-> "chunk_index",
                          value |-> PyList(<<PyStr(IntToStr(i))>>)] >>]]

\* the "chunks" list of the payload: enumerate(chunks) counts from 0
ChunkEntries(cs) ==
    [i \in 1..Len(cs) |->
        [content |-> cs[i],
         metadata |-> << [key |-> "chunk_index",
                          value |-> PyList(<<PyStr(IntToStr(i - 1))>>)] >>]]

build_document_payload(name, cs, meta) ==
    [documents |->
        << [metadata |-> DocumentMetadata(name, meta), chunks |-> ChunkEntries(cs)] >>]

--------------------------------------------------------------------------
(* extract_chunks_from_response *)

\* FlattenValue leaving a one-element list as the list it is
FlattenValueKeepsList(value) ==
    IF value.type = "list"
    THEN IF Len(value.val) = 1
         THEN value
         ELSE PyStr(Join([i \in 1..Len(value.val) |-> StrOf(value.val[i])], <<",", " ">>))
    ELSE PyStr(StrOf(value))

\* FlattenValue joining the elements with a bare comma
FlattenValueJoinsBare(value) ==
    IF value.type = "list"
    THEN IF Len(value.val) = 1
         THEN value.val[1]
         ELSE PyStr(Join([i \in 1..Len(value.val) |-> StrOf(value.val[i])], <<",">>))
    ELSE PyStr(StrOf(value))

\* the value _flatten_metadata stores for one metadata item
FlattenValue(value) ==
    IF value.type = "list"
    THEN IF Len(value.val) = 1
         THEN value.val[1]
         ELSE PyStr(Join([i \in 1..Len(value.val) |-> StrOf(value.val[i])], <<",", " ">>))
    ELSE PyStr(StrOf(value))

\* a dict decoded from a JSON object: a function from its keys
PyObject(d) == [type |-> "object", val |-> d]

\* hundredths in 1.0
Hundredths == 100

\* a float, in hundredths
PyFloat(h) == [type |-> "float", val |-> h]

\* the outcome of a call: the value it returns, or the exception it raises
Returned(v) == [raised |-> "", value |-> v]

Raised(e) == [raised |-> e]

HasRaised(r) == r.raised # ""

\* "for x in v" raises TypeError when v is None or a number
NotIterable(v) == v.type \in {"none", "int", "float"}

\* the keys of a dict, one after the other
KeysOf(d) ==
    LET ks == CHOOSE ks \in [1..Cardinality(DOMAIN d) -> DOMAIN d] :
                  \A i, j \in DOMAIN ks : i # j => ks[i] # ks[j]
    IN [i \in DOMAIN ks |-> PyStr(ks[i])]

\* what "for x in v" yields: the items of a list, the characters of a str,
\* the keys of a dict
IterItems(v) ==
    CASE v.type = "list" -> v.val
      [] v.type = "str" -> [i \in 1..Len(v.val) |-> PyStr(<<v.val[i]>>)]
      [] v.type = "object" -> KeysOf(v.val)

\* the outcome of the first iteration that raised
FirstRaised(rs) ==
    rs[CHOOSE i \in 1..Len(rs) :
          HasRaised(rs[i]) /\ \A j \in 1..(i - 1) : ~HasRaised(rs[j])]

\* a loop that collects what each iteration returns, rs the outcomes of its
\* iterations: it stops at the first exception
Each(rs) ==
    IF \E i \in 1..Len(rs) : HasRaised(rs[i]) THEN FirstRaised(rs)
    ELSE Returned([i \in 1..Len(rs) |-> rs[i].value])

\* the same for a loop that extends one list by what each iteration returns
Extend(rs) ==
    IF HasRaised(Each(rs)) THEN Each(rs) ELSE Returned(Flatten(Each(rs).value))

RECURSIVE FlattenLoop(_, _)
FlattenLoop(metadata_dict, items) ==
    IF items = <<>> THEN Returned(metadata_dict)
    ELSE LET meta_item == Head(items) IN
         IF meta_item.type # "object" THEN Raised("AttributeError")
         ELSE LET key == Get(meta_item.val, "key", "")
                  value == Get(meta_item.val, "value", PyList(<<>>))
              IN FlattenLoop(DictSet(metadata_dict, key, FlattenValue(value)),
                             Tail(items))

\* _flatten_metadata keeping the first record of a key
_flatten_metadata_KeepsFirst(metadata_list) ==
    IF NotIterable(metadata_list) THEN Raised("TypeError")
    ELSE LET items == IterItems(metadata_list) IN
         FlattenLoop(<<>>, [i \in 1..Len(items) |-> items[Len(items) + 1 - i]])

_flatten_metadata(metadata_list) ==
    IF NotIterable(metadata_list) THEN Raised("TypeError")
    ELSE FlattenLoop(<<>>, IterItems(metadata_list))

\* the default 0.0 of a chunk without score
NoScore == [type |-> "float", val |-> 0]

\* _extract_score reading the path with chunk["searchScores"]["aggregatedScore"]["value"]
_extract_score_Subscripts(chunk) ==
    IF "searchScores" \notin DOMAIN chunk THEN Raised("KeyError")
    ELSE IF chunk["searchScores"].type # "object" THEN Raised("TypeError")
    ELSE IF "aggregatedScore" \notin DOMAIN chunk["searchScores"].val THEN Raised("KeyError")
    ELSE IF chunk["searchScores"].val["aggregatedScore"].type # "object" THEN Raised("TypeError")
    ELSE IF "value" \notin DOMAIN chunk["searchScores"].val["aggregatedScore"].val
    THEN Raised("KeyError")
    ELSE Returned(chunk["searchScores"].val["aggregatedScore"].val["value"])

\* chunk is the dict of a raw chunk
_extract_score(chunk) ==
    LET search_scores == Get(chunk, "searchScores", PyObject(<<>>)) IN
    IF search_scores.type # "object" THEN Raised("AttributeError")
    ELSE LET aggregated_score == Get(search_scores.val, "aggregatedScore", PyObject(<<>>)) IN
         IF aggregated_score.type # "object" THEN Raised("AttributeError")
         ELSE Returned(Get(aggregated_score.val, "value", NoScore))

_transform_chunk(chunk) ==
    IF chunk.type # "object" THEN Raised("AttributeError")
    ELSE LET score == _extract_score(chunk.val)
             flat == _flatten_metadata(Get(chunk.val, "metadata", PyList(<<>>)))
         IN IF HasRaised(score) THEN score
            ELSE IF HasRaised(flat) THEN flat
            ELSE Returned([content |-> Get(chunk.val, "content", <<>>),
                           score |-> score.value,
                           metadata |-> flat.value])

\* raw_chunks.extend(document.get("chunks", []))
DocumentChunks(document) ==
    IF document.type # "object" THEN Raised("AttributeError")
    ELSE LET found == Get(document.val, "chunks", PyList(<<>>)) IN
         IF NotIterable(found) THEN Raised("TypeError") ELSE Returned(IterItems(found))

\* the chunks of the documents of one repository result
RepoChunks(repo_result) ==
    IF repo_result.type # "object" THEN Raised("AttributeError")
    ELSE LET data_repo == Get(repo_result.val, "dataRepository", PyObject(<<>>)) IN
         IF data_repo.type # "object" THEN Raised("AttributeError")
         ELSE LET documents == Get(data_repo.val, "documents", PyList(<<>>)) IN
              IF NotIterable(documents) THEN Raised("TypeError")
              ELSE LET ds == IterItems(documents) IN
                   Extend([d \in 1..Len(ds) |-> DocumentChunks(ds[d])])

\* the chunks of the repository results of one filter result
FilterChunks(filter_result) ==
    IF filter_result.type # "object" THEN Raised("AttributeError")
    ELSE LET repo_results == Get(filter_result.val, "results", PyList(<<>>)) IN
         IF NotIterable(repo_results) THEN Raised("TypeError")
         ELSE LET rs == IterItems(repo_results) IN
              Extend([r \in 1..Len(rs) |-> RepoChunks(rs[r])])

\* _extract_raw_chunks_from_results putting the chunks of each filter result
\* in front of those found before
_extract_raw_chunks_from_results_Prepends(results) ==
    IF NotIterable(results) THEN Raised("TypeError")
    ELSE LET fs == IterItems(results) IN
         Extend([f \in 1..Len(fs) |-> FilterChunks(fs[Len(fs) + 1 - f])])

_extract_raw_chunks_from_results(results) ==
    IF NotIterable(results) THEN Raised("TypeError")
    ELSE LET fs == IterItems(results) IN
         Extend([f \in 1..Len(fs) |-> FilterChunks(fs[f])])

\* the key 'results'
ResultsKey == <<"r", "e", "s", "u", "l", "t", "s">>

\* "results" not in result_data: a key of a dict, an item of a list, a
\* substring of a str
LacksResults(data) ==
    CASE data.type = "object" -> "results" \notin DOMAIN data.val
      [] data.type = "list" ->
            \A i \in 1..Len(data.val) :
                ~(data.val[i].type = "str" /\ data.val[i].val = ResultsKey)
      [] data.type = "str" ->
            \A i \in 1..(Len(data.val) - Len(ResultsKey) + 1) :
                SubSeq(data.val, i, i + Len(ResultsKey) - 1) # ResultsKey

\* extract_chunks_from_response reading 'results' without the test for it
extract_chunks_from_response_NoKeyTest(data, with_logger) ==
    IF data.type # "object" \/ "results" \notin DOMAIN data.val THEN Raised("KeyError")
    ELSE LET raw_chunks == _extract_raw_chunks_from_results(data.val["results"]) IN
         IF HasRaised(raw_chunks) THEN raw_chunks
         ELSE Each([i \in 1..Len(raw_chunks.value) |->
                        _transform_chunk(raw_chunks.value[i])])

\* with_logger: a logger was passed
extract_chunks_from_response(data, with_logger) ==
    IF NotIterable(data) THEN Raised("TypeError")
    ELSE IF LacksResults(data)
    THEN IF with_logger /\ data.type # "object"
         THEN Raised("AttributeError")
         ELSE Returned(<<>>)
    ELSE IF data.type # "object" THEN Raised("TypeError")
    ELSE LET raw_chunks == _extract_raw_chunks_from_results(data.val["results"]) IN
         IF HasRaised(raw_chunks) THEN raw_chunks
         ELSE Each([i \in 1..Len(raw_chunks.value) |->
                        _transform_chunk(raw_chunks.value[i])])

\* logger.warning is called
WarnsNoResults(data, with_logger) ==
    with_logger /\ ~NotIterable(data) /\ LacksResults(data)

--------------------------------------------------------------------------
(* The prompt *)

\* DOCUMENT_QA_SYSTEM_PROMPT up to {context}
TemplateHead ==
    << "Y", "o", "u", " ", "a", "r", "e", " ", "a", " ", "h", "e", "l", "p",
      "f", "u", "l", " ", "a", "s", "s", "i", "s", "t", "a", "n", "t", " ",
      "t", "h", "a", "t", " ", "a", "n", "s", "w", "e", "r", "s", " ", "q",
      "u", "e", "s", "t", "i", "o", "n", "s", " ", "b", "a", "s", "e", "d",
      " ", "o", "n", " ", "t", "h", "e", " ", "p", "r", "o", "v", "i", "d",
      "e", "d", " ", "d", "o", "c", "u", "m", "e", "n", "t", " ", "c", "o",
      "n", "t", "e", "x", "t", ".", "\n", "\n", "C", "o", "n", "t", "e", "x",
      "t", " ", "f", "r", "o", "m", " ", "d", "o", "c", "u", "m", "e", "n",
      "t", "s", ":", "\n" >>

\* DOCUMENT_QA_SYSTEM_PROMPT between {context} and {query}
TemplateMiddle ==
    << "\n", "\n", "U", "s", "e", "r", " ", "q", "u", "e", "s", "t", "i", "o",
      "n", ":", " " >>

\* DOCUMENT_QA_SYSTEM_PROMPT after {query}
TemplateTail ==
    << "\n", "\n", "I", "n", "s", "t", "r", "u", "c", "t", "i", "o", "n", "s",
      ":", "\n", "-", " ", "A", "n", "s", "w", "e", "r", " ", "t", "h", "e",
      " ", "q", "u", "e", "s", "t", "i", "o", "n", " ", "b", "a", "s", "e",
      "d", " ", "O", "N", "L", "Y", " ", "o", "n", " ", "t", "h", "e", " ",
      "i", "n", "f", "o", "r", "m", "a", "t", "i", "o", "n", " ", "p", "r",
      "o", "v", "i", "d", "e", "d", " ", "i", "n", " ", "t", "h", "e", " ",
      "c", "o", "n", "t", "e", "x", "t", " ", "a", "b", "o", "v", "e", "\n",
      "-", " ", "I", "f", " ", "t", "h", "e", " ", "c", "o", "n", "t", "e",
      "x", "t", " ", "d", "o", "e", "s", "n", "'", "t", " ", "c", "o", "n",
      "t", "a", "i", "n", " ", "e", "n", "o", "u", "g", "h", " ", "i", "n",
      "f", "o", "r", "m", "a", "t", "i", "o", "n", " ", "t", "o", " ", "a",
      "n", "s", "w", "e", "r", " ", "t", "h", "e", " ", "q", "u", "e", "s",
      "t", "i", "o", "n", ",", " ", "s", "a", "y", " ", "s", "o", " ", "c",
      "l", "e", "a", "r", "l", "y", "\n", "-", " ", "B", "e", " ", "c", "o",
      "n", "c", "i", "s", "e", " ", "a", "n", "d", " ", "a", "c", "c", "u",
      "r", "a", "t", "e", "\n", "-", " ", "C", "i", "t", "e", " ", "s", "p",
      "e", "c", "i", "f", "i", "c", " ", "p", "a", "r", "t", "s", " ", "o",
      "f", " ", "t", "h", "e", " ", "c", "o", "n", "t", "e", "x", "t", " ",
      "w", "h", "e", "n", " ", "r", "e", "l", "e", "v", "a", "n", "t", "\n",
      "\n", "A", "n", "s", "w", "e", "r", ":", "\n" >>

\* DOCUMENT_QA_SYSTEM_PROMPT.format(context=context, query=query): the two
\* fields give way to the values, which are not read for fields again
DOCUMENT_QA_SYSTEM_PROMPT(context, query_text) ==
    TemplateHead \o context \o TemplateMiddle \o query_text \o TemplateTail

\* "[Document chunk "
BlockLabel ==
    << "[", "D", "o", "c", "u", "m", "e", "n", "t", " ", "c", "h", "u", "n",
      "k", " " >>

\* format_document_qa_prompt counting the chunks from 0
format_document_qa_prompt_FromZero(cs, query_text) ==
    LET block(i) == BlockLabel \o IntToStr(i - 1) \o <<"]", ":", "\n">> \o cs[i].content
        context == Join([i \in 1..Len(cs) |-> block(i)], <<"\n", "\n">>)
    IN DOCUMENT_QA_SYSTEM_PROMPT(context, query_text)

\* format_document_qa_prompt answering an empty chunk list with the bare
\* query, no template around it
format_document_qa_prompt_SkipsEmpty(cs, query_text) ==
    LET block(i) == BlockLabel \o IntToStr((i - 1) + 1) \o <<"]", ":", "\n">> \o cs[i].content
        context == Join([i \in 1..Len(cs) |-> block(i)], <<"\n", "\n">>)
    IN IF cs = <<>> THEN query_text ELSE DOCUMENT_QA_SYSTEM_PROMPT(context, query_text)

\* i - 1 is the idx of enumerate(chunks)
format_document_qa_prompt(cs, query_text) ==
    LET block(i) == BlockLabel \o IntToStr((i - 1) + 1) \o <<"]", ":", "\n">> \o cs[i].content
        context == Join([i \in 1..Len(cs) |-> block(i)], <<"\n", "\n">>)
    IN DOCUMENT_QA_SYSTEM_PROMPT(context, query_text)

build_llm_prompt(cs, query_text) == format_document_qa_prompt(cs, query_text)

--------------------------------------------------------------------------
(* extract_text_from_upload *)

\* a call that raised, with the message of the exception
RaisedSaying(e, message) == [raised |-> e, message |-> message]

UpperCase ==
    << "A", "B", "C", "D", "E", "F", "G", "H", "I", "J", "K", "L", "M",
       "N", "O", "P", "Q", "R", "S", "T", "U", "V", "W", "X", "Y", "Z" >>

LowerCase ==
    << "a", "b", "c", "d", "e", "f", "g", "h", "i", "j", "k", "l", "m",
       "n", "o", "p", "q", "r", "s", "t", "u", "v", "w", "x", "y", "z" >>

\* str.lower()
Lower(s) ==
    [i \in 1..Len(s) |->
        IF \E k \in 1..Len(UpperCase) : UpperCase[k] = s[i]
        THEN LowerCase[CHOOSE k \in 1..Len(UpperCase) : UpperCase[k] = s[i]]
        ELSE s[i]]

\* str.endswith(suffix)
EndsWith(s, suffix) ==
    /\ Len(s) >= Len(suffix)
    /\ SubSeq(s, Len(s) - Len(suffix) + 1, Len(s)) = suffix

PdfSuffix == <<".", "p", "d", "f">>

Untitled == <<"u", "n", "t", "i", "t", "l", "e", "d">>

\* The bytes of an upload are what the two decoders make of them:
\* utf8 is content.decode("utf-8"), None when it raises UnicodeDecodeError;
\* pdf is [page.extract_text() for page in PdfReader(...).pages], None when
\* the reader or a page raises
FileBytes(utf8, pdf) == [utf8 |-> utf8, pdf |-> pdf]

NotUtf8Message == "File must be a text document (UTF-8 encoded) or a PDF file"

PdfFailedMessage == "Failed to process PDF file: ..."

PdfEmptyMessage == "PDF file appears to be empty or contains no extractable text. This may be a scanned PDF that requires OCR."

_decode_text_file(bytes) ==
    IF bytes.utf8.type = "none"
    THEN RaisedSaying("ValueError", NotUtf8Message)
    ELSE Returned(bytes.utf8.val)

\* _extract_text_from_pdf without the test for an empty text
_extract_text_from_pdf_KeepsEmpty(bytes) ==
    IF bytes.pdf.type = "none"
    THEN RaisedSaying("ValueError", PdfFailedMessage)
    ELSE LET pages == bytes.pdf.val
             text_parts == [i \in 1..Len(pages) |->
                               IF pages[i].type = "none" THEN <<>> ELSE pages[i].val]
         IN Returned(Join(text_parts, BlankLine))

_extract_text_from_pdf(bytes) ==
    IF bytes.pdf.type = "none"
    THEN RaisedSaying("ValueError", PdfFailedMessage)
    ELSE LET pages == bytes.pdf.val
             text_parts == [i \in 1..Len(pages) |->
                               IF pages[i].type = "none" THEN <<>> ELSE pages[i].val]
             extracted == Join(text_parts, BlankLine)
         IN IF Strip(extracted) = <<>>
            THEN RaisedSaying("ValueError", PdfEmptyMessage)
            ELSE Returned(extracted)

\* extract_text_from_upload telling a PDF by the lower-case extension only
extract_text_from_upload_CaseSensitive(filename, bytes) ==
    LET normalized_name == IF filename = <<>> THEN Untitled ELSE filename IN
    IF EndsWith(normalized_name, PdfSuffix)
    THEN _extract_text_from_pdf(bytes)
    ELSE _decode_text_file(bytes)

extract_text_from_upload(filename, bytes) ==
    LET normalized_name == IF filename = <<>> THEN Untitled ELSE filename IN
    IF EndsWith(Lower(normalized_name), PdfSuffix)
    THEN _extract_text_from_pdf(bytes)
    ELSE _decode_text_file(bytes)

--------------------------------------------------------------------------
(* The routes and the service methods they call *)

\* no file, no result of a service method, no HTTP response yet
\* filename = file.filename or "untitled"
Filename(upload) == IF upload.filename = <<>> THEN Untitled ELSE upload.filename

\* the request carries no file
NoFile == [uploaded |-> FALSE, filename |-> <<>>, bytes |-> FileBytes(PyNone, PyNone)]

NoResult == [success |-> FALSE, returned |-> FALSE]

NoResponse == [status |-> 0]

\* raise HTTPException(status_code=..., detail=...)
HTTPException(status_code, detail) == [status |-> status_code, detail |-> detail]

\* the upload route answering a file error as a server fault
RejectUploadAsFault(file_error) == HTTPException(500, file_error.message)

\* the upload route on the ValueError of extract_text_from_upload
RejectUpload(file_error) == HTTPException(400, file_error.message)

\* what upload_document of the service returns: posted tells whether the
\* ingest call went through
upload_document_result(posted, name, cs) ==
    IF posted
    THEN [returned |-> TRUE, success |-> TRUE, document_name |-> name,
          chunks_count |-> Len(cs), message |-> "Successfully uploaded document ..."]
    ELSE [returned |-> TRUE, success |-> FALSE, document_name |-> name,
          chunks_count |-> 0, message |-> "Failed to upload document: ..."]

\* the upload route answering 200 whatever the service returned
UploadResponseIgnoresFailure(upload_result) ==
    [status |-> 200, document_name |-> upload_result.document_name,
     chunks_count |-> upload_result.chunks_count, message |-> upload_result.message]

\* steps 5 and 6 of the upload route
UploadResponse(upload_result) ==
    IF ~upload_result.success
    THEN HTTPException(500, upload_result.message)
    ELSE [status |-> 200, document_name |-> upload_result.document_name,
          chunks_count |-> upload_result.chunks_count, message |-> upload_result.message]

\* the upload route on an exception that is not an HTTPException
UploadFailed(e) == HTTPException(500, "Upload failed: ...")

\* len(transformed_chunks) > 0 taken for true
NeedsLlmAlways(transformed_chunks) == TRUE

\* the test of chat_with_documents before the prompt is built
NeedsLlm(transformed_chunks) == Len(transformed_chunks) > 0

NoAnswerText == "No relevant information found in the documents to answer your question."

LlmAnswerText == "llm_response.content"

ErrorGeneratingText == "Error generating response: ..."

SearchFailedText == "Failed to search documents: ..."

\* the dict chat_with_documents returns after a search that went through
chat_result(query_text, transformed_chunks, response_text) ==
    [returned |-> TRUE, success |-> TRUE, query |-> query_text,
     chunks_found |-> Len(transformed_chunks), chunks |-> transformed_chunks,
     response_text |-> response_text]

\* the dict chat_with_documents returns on a requests.RequestException
search_failure_result(query_text) ==
    [returned |-> TRUE, success |-> FALSE, query |-> query_text,
     chunks_found |-> 0, chunks |-> <<>>,
     response_text |-> SearchFailedText, error |-> "..."]

\* what the language model does with a prompt
LlmOutcomes == {"answers", "init raises", "invoke raises"}

\* the calls of the try block: init_llm_model, then llm.invoke
LlmCalls(outcome) ==
    IF outcome = "init raises" THEN <<"init llm raises">>
    ELSE IF outcome = "invoke raises" THEN <<"init llm", "invoke llm raises">>
    ELSE <<"init llm", "invoke llm">>

\* AnswerResult reporting an exception of the language model as a failed
\* request
AnswerResultFailsWithLlm(query_text, transformed_chunks, outcome) ==
    IF outcome = "answers"
    THEN chat_result(query_text, transformed_chunks, LlmAnswerText)
    ELSE search_failure_result(query_text)

\* the try block around the language model and the return after it
AnswerResult(query_text, transformed_chunks, outcome) ==
    chat_result(query_text, transformed_chunks,
                IF outcome = "answers" THEN LlmAnswerText ELSE ErrorGeneratingText)

\* steps 2 to 4 of the chat route
ChatResponse(chat_answer) ==
    IF ~chat_answer.success
    THEN HTTPException(500, chat_answer.error)
    ELSE [status |-> 200, query |-> chat_answer.query,
          response |-> chat_answer.response_text,
          chunks |-> [i \in 1..Len(chat_answer.chunks) |->
                         [content |-> chat_answer.chunks[i].content,
                          score |-> chat_answer.chunks[i].score,
                          metadata |-> chat_answer.chunks[i].metadata]],
          chunks_found |-> chat_answer.chunks_found]

\* the chat route on an exception leaving chat_with_documents
ChatFailed(e) ==
    IF e = "ValueError"
    THEN HTTPException(404, "...")
    ELSE HTTPException(500, "Chat failed: ...")

\* the fields DocumentChatService.__init__ sets
NewService ==
    [access_token |-> "token", headers |-> "headers",
     genai_credentials |-> "credentials"]

\* a request slot no request occupies; the fields are the locals of the
\* handler and of the service method it calls
NoRequest ==
    [stage |-> "free", file |-> NoFile, chunk_size |-> 0, content |-> <<>>,
     chunks |-> <<>>, payload |-> <<>>, result_data |-> <<>>, normalized |-> <<>>,
     query |-> <<>>, prompt |-> <<>>]

\* StageChunks reading the text from a buffer all requests write to: the
\* text of another request that has just been extracted is chunked
StageChunksFromSharedBuffer(rs, r) ==
    LET others == {o \in DOMAIN rs : o # r /\ rs[o].stage = "text"} IN
    IF others # {}
    THEN chunk_document(rs[CHOOSE o \in others : TRUE].content, rs[r].chunk_size)
    ELSE chunk_document(rs[r].content, rs[r].chunk_size)

\* chunks = chunk_document(content, chunk_size) on the arguments of the call
StageChunks(rs, r) == chunk_document(rs[r].content, rs[r].chunk_size)

--------------------------------------------------------------------------
(* Inputs *)

Alphabet == {"a", ".", " ", "\n"}

Texts == UNION {[1..n -> Alphabet] : n \in 0..MaxLen}

Sizes == -1..MaxSize

\* the text and chunk_size of the example in chunk_document's docstring
DocExampleText ==
    <<"P","a","r","a","g","r","a","p","h"," ","1",".","\n","\n",
      "P","a","r","a","g","r","a","p","h"," ","2",".","\n","\n",
      "P","a","r","a","g","r","a","p","h"," ","3",".">>

DocExampleSize == 100

\* the units of the longer texts: a short and a longer sentence
UnitWords == {<<"a", ".">>, <<"a", "a", "?">>}

UnitLists == UNION {[1..n -> UnitWords] : n \in 1..MaxUnits}

\* texts of up to MaxUnits paragraphs, and of up to MaxUnits sentences
UnitTexts ==
    {Join(us, BlankLine) : us \in UnitLists} \cup {Join(us, <<" ">>) : us \in UnitLists}

ChunkInputs ==
    ((Texts \cup UnitTexts) \X Sizes) \cup {<<DocExampleText, DocExampleSize>>}

DocumentNames == {<<>>, <<"r", ".", "p", "d", "f">>}

ChunkTexts == {<<"a">>, <<"b", ".">>}

\* a list long enough for a chunk_index of two digits, its chunks all different
LongChunks == [i \in 1..(Base + 1) |-> [j \in 1..i |-> "a"]]

ChunkLists == UNION {[1..n -> ChunkTexts] : n \in 0..MaxChunks} \cup {LongChunks}

MetaKeys == {"name", "author"}

MetaValues == {PyStr(<<"x">>), PyInt(12), PyNone}

\* the (key, value) pairs of a dict in insertion order: no key twice
MetaPairLists ==
    {ps \in UNION {[1..n -> MetaKeys \X MetaValues] : n \in 0..Cardinality(MetaKeys)} :
        \A i, j \in 1..Len(ps) : i # j => ps[i][1] # ps[j][1]}

\* the optional metadata argument: None or a dict
Metadatas == {PyNone} \cup {PyDict(ps) : ps \in MetaPairLists}

\* the orders in which the remote search may return n stored chunks: every
\* order of a short list; of a longer list the stored order and its reverse
Orders(n) ==
    IF n <= MaxChunks
    THEN {f \in [1..n -> 1..n] : \A i, j \in 1..n : i # j => f[i] # f[j]}
    ELSE {[i \in 1..n |-> i], [i \in 1..n |-> n + 1 - i]}

\* a stored payload chunk as the response carries it
WireChunk(c) ==
    PyObject([content |-> c.content,
              metadata |-> PyList([i \in 1..Len(c.metadata) |-> PyObject(c.metadata[i])])])

\* one filter result with one repository result holding the documents ds
OneRepository(ds) ==
    PyObject([results |->
        PyList(<< PyObject([results |->
            PyList(<< PyObject([dataRepository |->
                PyObject([documents |-> PyList(ds)])]) >>)]) >>)])

\* a search response holding the stored chunks cs in the order given, the
\* first k in one document and the rest in a second one
SearchResult(cs, order, k) ==
    LET found == [i \in 1..Len(cs) |-> WireChunk(cs[order[i]])] IN
    OneRepository(<< PyObject([chunks |-> PyList(SubSeq(found, 1, k))]),
                     PyObject([chunks |-> PyList(SubSeq(found, k + 1, Len(found)))]) >>)

\* the responses the search of a chat request can bring

\* the nested score of a raw chunk
ScoreObject(value) ==
    PyObject([aggregatedScore |-> PyObject([value |-> value])])

\* the chunk at <<f, r, d, c>> of a tree: its content names its place, its
\* score rises and falls along the tree
PlacedChunk(f, r, d, c) ==
    PyObject([content |-> IntToStr(f) \o IntToStr(r) \o IntToStr(d) \o IntToStr(c),
              searchScores |-> ScoreObject(PyFloat((f * 37 + r * 53 + d * 71 + c * 29) % Hundredths)),
              metadata |-> PyList(<<>>)])

\* the fan-outs <<repositories, documents, chunks>> under a filter result
Shapes == (0..MaxFan) \X (0..MaxFan) \X (0..MaxFan)

\* a well-formed response of nf filter results: the odd ones fan out as shape
\* says, the even ones the other way round
Tree(nf, shape) ==
    LET fan(f) == IF f % 2 = 1 THEN shape ELSE <<shape[3], shape[2], shape[1]>> IN
    PyObject([results |-> PyList([f \in 1..nf |->
        PyObject([results |-> PyList([r \in 1..fan(f)[1] |->
            PyObject([dataRepository |-> PyObject([documents |->
                PyList([d \in 1..fan(f)[2] |->
                    PyObject([chunks |-> PyList([c \in 1..fan(f)[3] |->
                        PlacedChunk(f, r, d, c)])])])])])])])])])

Trees == {Tree(nf, shape) : nf \in 0..MaxFan, shape \in Shapes}

\* what a malformed response holds in the place of a list or dict
WrongValues ==
    {PyNone, PyInt(7), PyStr(<<"x">>), PyStr(<<>>), PyList(<<>>), PyObject(<<>>),
     PyObject([message |-> PyInt(7)]), PyList(<<PyInt(7)>>)}

Slots ==
    {"top", "results", "nested results", "dataRepository", "documents", "chunks",
     "chunk", "searchScores", "aggregatedScore", "value", "metadata", "item"}

\* a defect: the key of the slot is missing, or holds a wrong value
Defects ==
    [slot : Slots, missing : {TRUE}, val : {PyNone}]
        \cup [slot : Slots, missing : {FALSE}, val : WrongValues]

\* the entry key: v of a dict, or what the defect leaves of it
Field(defect, slot, key, v) ==
    IF defect.slot # slot THEN key :> v
    ELSE IF defect.missing THEN <<>> ELSE key :> defect.val

\* the item v of a list, or what the defect leaves of it
Item(defect, slot, v) ==
    IF defect.slot # slot THEN <<v>>
    ELSE IF defect.missing THEN <<>> ELSE <<defect.val>>

\* a response of one chunk, with one defect
Malformed(defect) ==
    LET item == PyObject([key |-> "name", value |-> PyList(<<PyStr(<<"x">>)>>)])
        score == PyObject(Field(defect, "value", "value", PyFloat(Hundredths \div 2)))
        scores == PyObject(Field(defect, "aggregatedScore", "aggregatedScore", score))
        chunk == PyObject(("content" :> <<"c">>)
                     @@ Field(defect, "searchScores", "searchScores", scores)
                     @@ Field(defect, "metadata", "metadata",
                              PyList(Item(defect, "item", item))))
        document == PyObject(Field(defect, "chunks", "chunks",
                                   PyList(Item(defect, "chunk", chunk))))
        data_repo == PyObject(Field(defect, "documents", "documents", PyList(<<document>>)))
        repo_result == PyObject(Field(defect, "dataRepository", "dataRepository", data_repo))
        filter_result == PyObject(Field(defect, "nested results", "results",
                                        PyList(<<repo_result>>)))
        data == PyObject(Field(defect, "results", "results", PyList(<<filter_result>>)))
    IN IF defect.slot = "top" /\ ~defect.missing THEN defect.val ELSE data

MalformedResponses == {Malformed(defect) : defect \in Defects}

\* the score values of a response: 0.0, 0.85, 1.0, and beyond both ends
ScoreValues == {PyFloat(0), PyFloat(85), PyFloat(Hundredths), PyFloat(150), PyFloat(-20)}

\* the searchScores entry of a raw chunk, complete or cut at one level
ScoreFields ==
    {"searchScores" :> ScoreObject(value) : value \in ScoreValues}
        \cup {"searchScores" :> PyObject([aggregatedScore |-> PyObject(<<>>)]),
              "searchScores" :> PyObject(<<>>),
              <<>>}

\* the values of a metadata record
ItemValues ==
    {PyList(<<>>), PyList(<<PyStr(<<"x">>)>>), PyList(<<PyInt(5)>>),
     PyList(<<PyStr(<<"x">>), PyInt(5)>>), PyList(<<PyStr(<<"y">>), PyStr(<<"x">>)>>),
     PyStr(<<"y">>), PyInt(5), PyNone}

ItemKeys == {"name", "k"}

\* the metadata records of a raw chunk, some without key or without value
MetadataItems ==
    {PyObject([key |-> k, value |-> v]) : k \in ItemKeys, v \in ItemValues}
        \cup {PyObject([value |-> PyList(<<PyStr(<<"x">>)>>)]),
              PyObject([key |-> "k"])}

MetadataLists == UNION {[1..n -> MetadataItems] : n \in 0..MaxItems}

\* a raw chunk of the given score entry and metadata records
RawChunk(score_field, items) ==
    PyObject(("content" :> <<"c">>) @@ score_field @@ ("metadata" :> PyList(items)))

RawChunks ==
    {RawChunk(score_field, <<>>) : score_field \in ScoreFields}
        \cup {RawChunk("searchScores" :> ScoreObject(PyFloat(85)), items) :
                  items \in MetadataLists}

\* a response of one document of one chunk
ChunkResponses == {OneRepository(<<PyObject([chunks |-> PyList(<<chunk>>)])>>) : chunk \in RawChunks}

Responses == Trees \cup MalformedResponses \cup ChunkResponses

\* the questions of a chat request: none, a plain one, one with a brace field
Queries == {<<>>, <<"q", "?">>, <<"{", "c", "o", "n", "t", "e", "x", "t", "}">>}

\* the chunk lists build_llm_prompt is tried on
PromptContents == {<<>>, <<"a", ".">>, <<"{", "q", "u", "e", "r", "y", "}">>}

PromptChunks == {[content |-> c, score |-> PyFloat(0), metadata |-> <<>>] : c \in PromptContents}

PromptChunkLists == UNION {[1..n -> PromptChunks] : n \in 0..MaxFan}

\* the names of uploaded files; the route takes "untitled" for no name
FileNames ==
    {<<>>, <<"a", ".", "t", "x", "t">>, <<"a", ".", "p", "d", "f">>,
     <<"A", ".", "P", "d", "F">>, <<"p", "d", "f">>}

\* what extract_text() gives for a page: None, '', blank or a text
PageTexts == {PyNone, PyStr(<<>>), PyStr(<<" ">>), PyStr(<<"a", ".">>)}

PageLists == UNION {[1..n -> PageTexts] : n \in 0..MaxPages}

\* the text of a PDF whose bytes are valid UTF-8
PdfSource == <<"%", "P", "D", "F">>

UploadTexts == UNION {[1..n -> Alphabet] : n \in 0..MaxText}

\* the bytes of an upload: a text, bytes that are neither text nor PDF, a
\* PDF that is no UTF-8, a PDF that is UTF-8
FileContents ==
    {FileBytes(PyStr(t), PyNone) : t \in UploadTexts}
        \cup {FileBytes(PyNone, PyNone)}
        \cup {FileBytes(PyNone, PyList(pages)) : pages \in PageLists}
        \cup {FileBytes(PyStr(PdfSource), PyList(pages)) : pages \in PageLists}

Files ==
    {[uploaded |-> TRUE, filename |-> name, bytes |-> bytes] :
        name \in FileNames, bytes \in FileContents}

\* the chunk_size of the upload form
UploadSizes == {-1, 1, MaxSize}

\* the responses to the search of a chat request
ChatResponses ==
    Trees \cup MalformedResponses
        \cup {OneRepository(<<PyObject([chunks |-> PyList(<<RawChunk(score_field, <<>>)>>)])>>) :
                  score_field \in ScoreFields}

--------------------------------------------------------------------------
(* The state machine: each request applies one helper to fresh inputs *)

Init ==
    /\ pc = "idle"
    /\ content = <<>>
    /\ chunk_size = 0
    /\ chunks = <<>>
    /\ document_name = <<>>
    /\ metadata = <<>>
    /\ payload = <<>>
    /\ result_data = <<>>
    /\ logger = FALSE
    /\ warned = FALSE
    /\ error = ""
    /\ normalized = <<>>
    /\ query = <<>>
    /\ prompt = <<>>
    /\ file = NoFile
    /\ calls = <<>>
    /\ result = NoResult
    /\ http = NoResponse
    /\ collections = 0
    /\ requests = [r \in 1..NumRequests |-> NoRequest]
    /\ service = NewService

ChunkDocument ==
    /\ pc = "idle"
    /\ \E in \in ChunkInputs :
          /\ content' = in[1]
          /\ chunk_size' = in[2]
          /\ chunks' = chunk_document(in[1], in[2])
    /\ pc' = "chunked"
    /\ UNCHANGED <<document_name, metadata, payload, chatVars>>
    /\ UNCHANGED <<handlerVars, sharedVars>>

ChunkBySentences ==
    /\ pc = "idle"
    /\ \E in \in ChunkInputs :
          /\ content' = in[1]
          /\ chunk_size' = in[2]
          /\ chunks' = _chunk_by_sentences(in[1], in[2])
    /\ pc' = "sentences"
    /\ UNCHANGED <<document_name, metadata, payload, chatVars>>
    /\ UNCHANGED <<handlerVars, sharedVars>>

BuildDocumentPayload ==
    /\ pc = "idle"
    /\ \E name \in DocumentNames, cs \in ChunkLists, meta \in Metadatas :
          /\ document_name' = name
          /\ chunks' = cs
          /\ metadata' = meta
          /\ payload' = build_document_payload(name, cs, meta)
    /\ pc' = "built"
    /\ UNCHANGED <<content, chunk_size, chatVars>>
    /\ UNCHANGED <<handlerVars, sharedVars>>

\* the remote service answers a search with the chunks it stored from the
\* payload, in an order of its own
Search ==
    /\ pc = "built"
    /\ LET stored == payload.documents[1].chunks IN
       \E order \in Orders(Len(stored)), k \in {0, Len(stored) \div 2} :
          result_data' = SearchResult(stored, order, k)
    /\ pc' = "searched"
    /\ UNCHANGED <<content, chunk_size, chunks, document_name, metadata, payload,
                   logger, warned, error, normalized, query, prompt>>
    /\ UNCHANGED <<handlerVars, sharedVars>>

\* the remote service answers the search of a chat request
SearchAny ==
    /\ pc = "idle"
    /\ result_data' \in Responses
    /\ pc' = "answered"
    /\ UNCHANGED <<content, chunk_size, chunks, document_name, metadata, payload,
                   logger, warned, error, normalized, query, prompt>>
    /\ UNCHANGED <<handlerVars, sharedVars>>

\* extract_chunks_from_response(result_data, logger): "extracted" after the
\* search of a stored payload, "normalized" after any other response,
\* "raised" when the call raised.  The service passes its logger; the
\* responses of a chat request are normalized without one as well
ExtractChunks ==
    /\ pc \in {"searched", "answered"}
    /\ \E with_logger \in IF pc = "searched" THEN {TRUE} ELSE BOOLEAN :
          LET r == extract_chunks_from_response(result_data, with_logger) IN
          /\ logger' = with_logger
          /\ warned' = WarnsNoResults(result_data, with_logger)
          /\ error' = r.raised
          /\ normalized' = IF HasRaised(r) THEN <<>> ELSE r.value
          /\ pc' = IF HasRaised(r) THEN "raised"
                   ELSE IF pc = "searched" THEN "extracted" ELSE "normalized"
    /\ UNCHANGED <<content, chunk_size, chunks, document_name, metadata, payload,
                   result_data, query, prompt>>
    /\ UNCHANGED <<handlerVars, sharedVars>>

\* the chat request found chunks: the prompt of the answer is built
FormatPrompt ==
    /\ pc = "normalized"
    /\ Len(normalized) > 0
    /\ \E query_text \in Queries :
          /\ query' = query_text
          /\ prompt' = build_llm_prompt(normalized, query_text)
    /\ pc' = "prompted"
    /\ UNCHANGED <<content, chunk_size, chunks, document_name, metadata, payload,
                   result_data, logger, warned, error, normalized>>
    /\ UNCHANGED <<handlerVars, sharedVars>>

\* build_llm_prompt on any list of chunks, the empty one included
BuildLlmPrompt ==
    /\ pc = "idle"
    /\ \E cs \in PromptChunkLists, query_text \in Queries :
          /\ normalized' = cs
          /\ query' = query_text
          /\ prompt' = build_llm_prompt(cs, query_text)
    /\ pc' = "composed"
    /\ UNCHANGED <<content, chunk_size, chunks, document_name, metadata, payload,
                   result_data, logger, warned, error>>
    /\ UNCHANGED <<handlerVars, sharedVars>>

\* the request is over; the helpers keep nothing between calls
Reset ==
    /\ pc \in {"chunked", "sentences", "built", "extracted", "normalized", "raised",
               "prompted", "composed"}
    /\ pc' = "idle"
    /\ content' = <<>>
    /\ chunk_size' = 0
    /\ chunks' = <<>>
    /\ document_name' = <<>>
    /\ metadata' = <<>>
    /\ payload' = <<>>
    /\ result_data' = <<>>
    /\ logger' = FALSE
    /\ warned' = FALSE
    /\ error' = ""
    /\ normalized' = <<>>
    /\ query' = <<>>
    /\ prompt' = <<>>
    /\ UNCHANGED <<handlerVars, sharedVars>>

Next ==
    \/ ChunkDocument
    \/ ChunkBySentences
    \/ BuildDocumentPayload
    \/ Search
    \/ SearchAny
    \/ ExtractChunks
    \/ FormatPrompt
    \/ BuildLlmPrompt
    \/ Reset

Spec == Init /\ [][Next]_vars

--------------------------------------------------------------------------
(* The handlers: one request at a time through a route and the service *)

\* POST /upload arrives with a file and a chunk_size
UploadRequest ==
    /\ pc = "idle"
    /\ collections < MaxCollections
    /\ file' \in Files
    /\ chunk_size' \in UploadSizes
    /\ pc' = "upload received"
    /\ UNCHANGED <<content, chunks, document_name, metadata, payload, chatVars,
                   calls, result, http, sharedVars>>

\* step 2 of the upload route: the text of the file, or HTTP 400
ExtractText ==
    /\ pc = "upload received"
    /\ LET r == extract_text_from_upload(Filename(file), file.bytes) IN
       IF HasRaised(r)
       THEN /\ http' = RejectUpload(r)
            /\ pc' = "responded"
            /\ UNCHANGED content
       ELSE /\ content' = r.value
            /\ pc' = "text extracted"
            /\ UNCHANGED http
    /\ UNCHANGED <<chunk_size, chunks, document_name, metadata, payload, chatVars,
                   file, calls, result, sharedVars>>

\* step 4 of the upload route: create_collection returns an id, or raises
\* before the service created anything ("failed"), or raises because the
\* response of the service carries no id ("no id")
CreateCollection ==
    /\ pc = "text extracted"
    /\ \E outcome \in {"created", "failed", "no id"} :
          /\ calls' = Append(calls, IF outcome = "created" THEN "create collection"
                                     ELSE "create collection raises")
          /\ collections' = IF outcome = "failed" THEN collections ELSE collections + 1
          /\ IF outcome = "created"
             THEN pc' = "collection created" /\ UNCHANGED http
             ELSE pc' = "responded" /\ http' = UploadFailed(outcome)
    /\ UNCHANGED <<content, chunk_size, chunks, document_name, metadata, payload,
                   chatVars, file, result, requests, service>>

\* step 5 of the upload route: upload_document chunks the text, builds the
\* payload and posts it
UploadDocument ==
    /\ pc = "collection created"
    /\ \E posted \in BOOLEAN :
          LET name == Filename(file)
              cs == chunk_document(content, chunk_size)
          IN  /\ document_name' = name
              /\ chunks' = cs
              /\ payload' = build_document_payload(name, cs, PyNone)
              /\ calls' = Append(calls, IF posted THEN "ingest" ELSE "ingest raises")
              /\ result' = upload_document_result(posted, name, cs)
    /\ pc' = "document uploaded"
    /\ UNCHANGED <<content, chunk_size, metadata, chatVars, file, http, sharedVars>>

\* steps 6 and 7 of the upload route
UploadRespond ==
    /\ pc = "document uploaded"
    /\ http' = UploadResponse(result)
    /\ pc' = "responded"
    /\ UNCHANGED <<content, chunk_size, chunks, document_name, metadata, payload,
                   chatVars, file, calls, result, sharedVars>>

\* POST /chat arrives with a query
ChatRequest ==
    /\ pc = "idle"
    /\ query' \in Queries
    /\ pc' = "chat received"
    /\ UNCHANGED <<content, chunk_size, chunks, document_name, metadata, payload,
                   result_data, logger, warned, error, normalized, prompt,
                   handlerVars, sharedVars>>

\* the search of chat_with_documents: a JSON body, or a
\* requests.RequestException
SearchCall ==
    /\ pc = "chat received"
    /\ \/ /\ result_data' \in ChatResponses
          /\ calls' = Append(calls, "search")
          /\ pc' = "search done"
          /\ UNCHANGED result
       \/ /\ result' = search_failure_result(query)
          /\ calls' = Append(calls, "search raises")
          /\ pc' = "service returned"
          /\ UNCHANGED result_data
    /\ UNCHANGED <<content, chunk_size, chunks, document_name, metadata, payload,
                   logger, warned, error, normalized, query, prompt,
                   file, http, sharedVars>>

\* extract_chunks_from_response(result_data, logger=logger) in the service;
\* what it raises leaves chat_with_documents
NormalizeChunks ==
    /\ pc = "search done"
    /\ LET r == extract_chunks_from_response(result_data, TRUE) IN
       /\ logger' = TRUE
       /\ warned' = WarnsNoResults(result_data, TRUE)
       /\ error' = r.raised
       /\ normalized' = IF HasRaised(r) THEN <<>> ELSE r.value
       /\ pc' = IF HasRaised(r) THEN "service raised" ELSE "chunks normalized"
    /\ UNCHANGED <<content, chunk_size, chunks, document_name, metadata, payload,
                   result_data, query, prompt, handlerVars, sharedVars>>

\* chunks were found: the prompt is built
ComposePrompt ==
    /\ pc = "chunks normalized"
    /\ NeedsLlm(normalized)
    /\ prompt' = build_llm_prompt(normalized, query)
    /\ pc' = "prompt built"
    /\ UNCHANGED <<content, chunk_size, chunks, document_name, metadata, payload,
                   result_data, logger, warned, error, normalized, query,
                   handlerVars, sharedVars>>

\* no chunk was found: the fixed answer, without the language model
NoRelevantChunks ==
    /\ pc = "chunks normalized"
    /\ ~NeedsLlm(normalized)
    /\ result' = chat_result(query, normalized, NoAnswerText)
    /\ pc' = "service returned"
    /\ UNCHANGED <<content, chunk_size, chunks, document_name, metadata, payload,
                   chatVars, file, calls, http, sharedVars>>

\* the language model is initialised and invoked; either may raise
GenerateAnswer ==
    /\ pc = "prompt built"
    /\ \E outcome \in LlmOutcomes :
          /\ calls' = calls \o LlmCalls(outcome)
          /\ result' = AnswerResult(query, normalized, outcome)
    /\ pc' = "service returned"
    /\ UNCHANGED <<content, chunk_size, chunks, document_name, metadata, payload,
                   chatVars, file, http, sharedVars>>

\* the chat route turns what the service returned or raised into the
\* response
ChatRespond ==
    /\ pc \in {"service returned", "service raised"}
    /\ http' = IF pc = "service raised" THEN ChatFailed(error) ELSE ChatResponse(result)
    /\ pc' = "responded"
    /\ UNCHANGED <<content, chunk_size, chunks, document_name, metadata, payload,
                   chatVars, file, calls, result, sharedVars>>

\* the response is sent; the collections of the remote service stay
EndRequest ==
    /\ pc = "responded"
    /\ pc' = "idle"
    /\ content' = <<>>
    /\ chunk_size' = 0
    /\ chunks' = <<>>
    /\ document_name' = <<>>
    /\ metadata' = <<>>
    /\ payload' = <<>>
    /\ result_data' = <<>>
    /\ logger' = FALSE
    /\ warned' = FALSE
    /\ error' = ""
    /\ normalized' = <<>>
    /\ query' = <<>>
    /\ prompt' = <<>>
    /\ file' = NoFile
    /\ calls' = <<>>
    /\ result' = NoResult
    /\ http' = NoResponse
    /\ UNCHANGED sharedVars

NextService ==
    \/ UploadRequest
    \/ ExtractText
    \/ CreateCollection
    \/ UploadDocument
    \/ UploadRespond
    \/ ChatRequest
    \/ SearchCall
    \/ NormalizeChunks
    \/ ComposePrompt
    \/ NoRelevantChunks
    \/ GenerateAnswer
    \/ ChatRespond
    \/ EndRequest

SpecService == Init /\ [][NextService]_vars

--------------------------------------------------------------------------
(* Properties of the chunkers *)

RECURSIVE SumLen(_)
SumLen(ss) == IF ss = <<>> THEN 0 ELSE Len(Head(ss)) + SumLen(Tail(ss))

NotSpace(c) == ~IsSpace(c)

NonWhitespace(s) == SelectSeq(s, NotSpace)

HasBlankLine(s) == \E i \in 1..(Len(s) - 1) : s[i] = "\n" /\ s[i + 1] = "\n"

\* the pieces of each chunk between blank lines, chunk after chunk
ResplitParagraphs(cs) == Flatten([i \in 1..Len(cs) |-> Split(cs[i], BlankLine)])

\* the result came from the paragraph tier of chunk_document
ParagraphTier == pc = "chunked" /\ Paragraphs(content) # <<>>

\* the result came from sentence packing
SentenceTier == pc = "sentences" \/ (pc = "chunked" /\ Paragraphs(content) = <<>>)

\* C1: for a text of two or more paragraphs and a positive chunk_size, the
\* chunks of chunk_document, split again on blank lines and read in chunk
\* order, are exactly the trimmed non-empty paragraphs of the text: none is
\* split, dropped, duplicated or moved.
C1_ParagraphsPreserved ==
    (pc = "chunked" /\ Len(Paragraphs(content)) >= 2 /\ chunk_size > 0)
        => ResplitParagraphs(chunks) = Paragraphs(content)

\* four paragraphs in two chunks, the second chunk merged after a flush
C1_Witness ==
    /\ pc = "chunked"
    /\ chunk_size > 0
    /\ Len(Paragraphs(content)) = 4
    /\ Len(chunks) = 2
    /\ Len(Split(chunks[2], BlankLine)) >= 2

C3_DocExampleThreeChunks ==
    (pc = "chunked" /\ content = DocExampleText /\ chunk_size = DocExampleSize)
        => chunks = Paragraphs(content)

\* C4: a text without blank line whose sentences together exceed chunk_size
\* is packed by sentences: more than one chunk, each made of whole sentences.
C4_SentenceFallback ==
    (/\ pc = "chunked"
     /\ ~HasBlankLine(content)
     /\ Len(SelectSeq(SplitSentences(content), NonEmpty)) >= 2
     /\ SumLen(SplitSentences(content)) > chunk_size)
        => /\ Len(chunks) > 1
           /\ chunks = _chunk_by_sentences(content, chunk_size)

\* C5: for every text and every chunk_size, zero and negative included, the
\* non-whitespace characters of the chunks of chunk_document read in chunk
\* order are those of the text, in order.
C5_NoContentLost ==
    pc = "chunked" => NonWhitespace(Flatten(chunks)) = NonWhitespace(content)

\* a negative chunk_size, several chunks, and whitespace of the text dropped
C5_Witness ==
    /\ pc = "chunked"
    /\ chunk_size < 0
    /\ Len(chunks) >= 2
    /\ NonWhitespace(content) # <<>>
    /\ Len(Flatten(chunks)) < Len(content)

\* C6: for the empty text and every whitespace-only text, chunk_document
\* returns the empty list or exactly one chunk made of whitespace only.
C6_BlankText ==
    (pc = "chunked" /\ NonWhitespace(content) = <<>>)
        => \/ chunks = <<>>
           \/ Len(chunks) = 1 /\ NonWhitespace(chunks[1]) = <<>>

\* a whitespace-only text holding a blank line, with a negative chunk_size
C6_Witness ==
    /\ pc = "chunked"
    /\ content # <<>>
    /\ NonWhitespace(content) = <<>>
    /\ HasBlankLine(content)
    /\ chunk_size < 0
    /\ Len(chunks) = 1

\* chunk c, made of the units us joined by a separator of length s, is
\* within the budget or is one unit that is itself over it
WithinBudget(c, us, s) ==
    \/ Len(c) <= chunk_size + s * (Len(us) - 1)
    \/ Len(us) = 1 /\ Len(us[1]) > chunk_size

\* C7: every chunk is at most chunk_size + s*(k-1) characters long, k the
\* number of units joined in it and s the separator length (2 between
\* paragraphs, 1 between sentences), unless it is one single unit longer
\* than chunk_size.
C7_ApproximateBudget ==
    /\ ParagraphTier =>
          \A i \in 1..Len(chunks) :
              WithinBudget(chunks[i], Split(chunks[i], BlankLine), 2)
    /\ SentenceTier =>
          \A i \in 1..Len(chunks) :
              WithinBudget(chunks[i], SplitSentences(chunks[i]), 1)

\* a chunk of two sentences longer than chunk_size by its separator, next
\* to another chunk
C7_Witness ==
    /\ pc = "sentences"
    /\ Len(chunks) >= 2
    /\ \E i \in 1..Len(chunks) :
          /\ Len(SplitSentences(chunks[i])) = 2
          /\ Len(chunks[i]) = chunk_size + 1

--------------------------------------------------------------------------
(* Properties of the payload and of its round trip through a search *)

IsDigit(c) == \E d \in 1..Len(Digit) : Digit[d] = c

DigitValue(c) == (CHOOSE d \in 1..Len(Digit) : Digit[d] = c) - 1

\* int(s) of a string of digits
RECURSIVE ParseInt(_)
ParseInt(s) ==
    IF s = <<>> THEN 0
    ELSE ParseInt(SubSeq(s, 1, Len(s) - 1)) * Len(Digit) + DigitValue(s[Len(s)])

\* s is the decimal numeral of n >= 0: digits only, no leading zero
IsDecimalOf(s, n) ==
    /\ Len(s) >= 1
    /\ \A i \in 1..Len(s) : IsDigit(s[i])
    /\ Len(s) > 1 => s[1] # "0"
    /\ ParseInt(s) = n

\* s is what str() gives for the Python value v
IsStringOf(s, v) ==
    CASE v.type = "str" -> s = v.val
      [] v.type = "int" -> IsDecimalOf(s, v.val)
      [] v.type = "none" -> s = <<"N", "o", "n", "e">>

\* a < b as Python compares two strings of digits
RECURSIVE StrLess(_, _)
StrLess(a, b) ==
    IF b = <<>> THEN FALSE
    ELSE IF a = <<>> THEN TRUE
    ELSE IF Head(a) = Head(b) THEN StrLess(Tail(a), Tail(b))
    ELSE DigitValue(Head(a)) < DigitValue(Head(b))

\* C8: the payload holds one chunk per input chunk, in input order and with
\* the content unchanged, and the i-th of them (from 0) has the single
\* metadata entry chunk_index = [str(i)]: the indices start at 0, are
\* contiguous and equal the positions.
C8_ChunkIndex ==
    pc = "built" =>
        LET out == payload.documents[1].chunks IN
        /\ Len(payload.documents) = 1
        /\ Len(out) = Len(chunks)
        /\ \A i \in 1..Len(out) :
              /\ DOMAIN out[i] = {"content", "metadata"}
              /\ out[i].content = chunks[i]
              /\ Len(out[i].metadata) = 1
              /\ out[i].metadata[1].key = "chunk_index"
              /\ out[i].metadata[1].value.type = "list"
              /\ Len(out[i].metadata[1].value.val) = 1
              /\ out[i].metadata[1].value.val[1].type = "str"
              /\ IsDecimalOf(out[i].metadata[1].value.val[1].val, i - 1)

\* a payload whose last chunk_index has two digits
C8_Witness ==
    /\ pc = "built"
    /\ Len(chunks) > Base
    /\ Len(payload.documents[1].chunks[Len(chunks)].metadata[1].value.val[1].val) = 2

\* C9: the document-level metadata is name = [document_name], then
\* source = ["user_upload"], then one entry per caller-supplied pair in the
\* caller's order, each value turned into a string and wrapped in a
\* one-element list, also when the caller's keys are 'name' or 'source'.
C9_DocumentMetadata ==
    pc = "built" =>
        LET dm == payload.documents[1].metadata
            pairs == IF metadata.type = "dict" THEN metadata.val ELSE <<>>
        IN
        /\ Len(dm) = 2 + Len(pairs)
        /\ dm[1] = [key |-> "name", value |-> PyList(<<PyStr(document_name)>>)]
        /\ dm[2] = [key |-> "source", value |-> PyList(<<PyStr(UserUpload)>>)]
        /\ \A j \in 1..Len(pairs) :
              /\ dm[2 + j].key = pairs[j][1]
              /\ dm[2 + j].value.type = "list"
              /\ Len(dm[2 + j].value.val) = 1
              /\ dm[2 + j].value.val[1].type = "str"
              /\ IsStringOf(dm[2 + j].value.val[1].val, pairs[j][2])

\* a caller dict with an int value followed by a pair whose key is 'name'
C9_Witness ==
    /\ pc = "built"
    /\ metadata.type = "dict"
    /\ Len(metadata.val) = 2
    /\ metadata.val[1][2].type = "int"
    /\ metadata.val[2][1] = "name"
    /\ Len(payload.documents[1].metadata) = 4

\* the chunk_index of the n-th normalized chunk
IndexOf(n) == normalized[n].metadata["chunk_index"]

\* every normalized chunk carries, as a string, the position its content had
\* in the chunk list the payload was built from
EachIndexIsPosition ==
    /\ Len(normalized) = Len(chunks)
    /\ \A n \in 1..Len(normalized) :
          /\ "chunk_index" \in DOMAIN normalized[n].metadata
          /\ IndexOf(n).type = "str"
          /\ \E i \in 1..Len(chunks) :
                /\ IsDecimalOf(IndexOf(n).val, i - 1)
                /\ normalized[n].content = chunks[i]

\* where the n-th normalized chunk lands when the list is sorted by the
\* chunk_index strings
RankByString(n) ==
    1 + Cardinality({m \in 1..Len(normalized) : StrLess(IndexOf(m).val, IndexOf(n).val)})

\* where it lands when the list is sorted by the numbers the strings denote
RankByNumber(n) ==
    1 + Cardinality({m \in 1..Len(normalized) :
                        ParseInt(IndexOf(m).val) < ParseInt(IndexOf(n).val)})

\* C10 as stated: after build, search in any order and normalization every
\* chunk_index is the string of the original position, and sorting the
\* normalized chunks by chunk_index gives back the original chunk list.
C10_SortByIndexString ==
    pc = "extracted" =>
        /\ EachIndexIsPosition
        /\ \A n \in 1..Len(normalized) : normalized[n].content = chunks[RankByString(n)]

\* C10 amended: every chunk_index is the string of the original position,
\* and sorting the normalized chunks by the integer value of chunk_index
\* gives back the original chunk list.
C10_RoundTrip ==
    pc = "extracted" =>
        /\ EachIndexIsPosition
        /\ \A n \in 1..Len(normalized) : normalized[n].content = chunks[RankByNumber(n)]
        /\ \A m, n \in 1..Len(normalized) : m # n => RankByNumber(m) # RankByNumber(n)

\* eleven chunks returned in reverse order and normalized
C10_Witness ==
    /\ pc = "extracted"
    /\ Len(chunks) > Base
    /\ Len(normalized) = Len(chunks)
    /\ normalized[1].content = chunks[Len(chunks)]

--------------------------------------------------------------------------
(* Claims on extract_chunks_from_response *)

\* extract_chunks_from_response has just returned
Normalized == pc \in {"extracted", "normalized"}

\* extract_chunks_from_response has just returned or raised
Called == Normalized \/ pc = "raised"

HasKey(v, key) == v.type = "object" /\ key \in DOMAIN v.val

HasList(v, key) == HasKey(v, key) /\ v.val[key].type = "list"

Filters(data) == data.val["results"].val

Repositories(data, f) == Filters(data)[f].val["results"].val

Documents(data, f, r) ==
    Repositories(data, f)[r].val["dataRepository"].val["documents"].val

ChunksOf(data, f, r, d) == Documents(data, f, r)[d].val["chunks"].val

\* every level of the tree is there, a list where a list is expected
WellNested(data) ==
    /\ HasList(data, "results")
    /\ \A f \in 1..Len(Filters(data)) :
          /\ HasList(Filters(data)[f], "results")
          /\ \A r \in 1..Len(Repositories(data, f)) :
                /\ HasKey(Repositories(data, f)[r], "dataRepository")
                /\ HasList(Repositories(data, f)[r].val["dataRepository"], "documents")
                /\ \A d \in 1..Len(Documents(data, f, r)) :
                      HasList(Documents(data, f, r)[d], "chunks")

\* the places <<f, r, d, c>> of the chunks of a tree
Paths(data) ==
    UNION {UNION {UNION {{<<f, r, d, c>> : c \in 1..Len(ChunksOf(data, f, r, d))} :
                         d \in 1..Len(Documents(data, f, r))} :
                  r \in 1..Len(Repositories(data, f))} :
           f \in 1..Len(Filters(data))}

ChunkAt(data, p) == ChunksOf(data, p[1], p[2], p[3])[p[4]]

\* p comes before q going depth first
PathLess(p, q) ==
    \E k \in 1..Len(p) : p[k] < q[k] /\ \A j \in 1..(k - 1) : p[j] = q[j]

\* the position of p among paths going depth first, from 1
Rank(paths, p) == Cardinality({q \in paths : PathLess(q, p)}) + 1

\* the metadata records of a raw chunk
ItemsOf(chunk) == Get(chunk.val, "metadata", PyList(<<>>)).val

\* a raw chunk is a dict; the levels of its score it has are dicts, its
\* metadata is a list of dicts
WellFormedChunk(chunk) ==
    /\ chunk.type = "object"
    /\ HasKey(chunk, "searchScores") =>
          /\ chunk.val["searchScores"].type = "object"
          /\ HasKey(chunk.val["searchScores"], "aggregatedScore") =>
                chunk.val["searchScores"].val["aggregatedScore"].type = "object"
    /\ HasKey(chunk, "metadata") =>
          /\ chunk.val["metadata"].type = "list"
          /\ \A j \in 1..Len(ItemsOf(chunk)) : ItemsOf(chunk)[j].type = "object"

WellFormed(data) ==
    /\ WellNested(data)
    /\ \A p \in Paths(data) : WellFormedChunk(ChunkAt(data, p))

\* the record made of the chunk at p, one of paths
RecordOf(paths, p) == normalized[Rank(paths, p)]

\* C11: for a well-formed response the call returns, with one record per
\* chunk of the tree: as many records as the tree has chunks, and the record
\* of each chunk at its depth-first position (filter result, repository
\* result, document, chunk), whatever the scores
C11_DepthFirstOrder ==
    (Called /\ WellFormed(result_data)) =>
        /\ Normalized
        /\ LET paths == Paths(result_data) IN
           /\ Len(normalized) = Cardinality(paths)
           /\ \A p \in paths :
                 RecordOf(paths, p).content =
                     Get(ChunkAt(result_data, p).val, "content", <<>>)

\* C11 witness: a tree of two filter results of different shapes was
\* normalized, the scores of its records going up and down
C11_Witness ==
    /\ pc = "normalized"
    /\ WellFormed(result_data)
    /\ Len(Filters(result_data)) = MaxFan
    /\ Len(Repositories(result_data, 1)) # Len(Repositories(result_data, MaxFan))
    /\ Len(normalized) > MaxFan + MaxFan
    /\ \E n \in 2..(Len(normalized) - 1) :
          /\ normalized[n - 1].score.val < normalized[n].score.val
          /\ normalized[n + 1].score.val < normalized[n].score.val

\* C12: a response dict without 'results' key gives the empty list and no
\* exception, with or without logger
C12_NoResultsKey ==
    (Called /\ result_data.type = "object" /\ ~HasKey(result_data, "results")) =>
        /\ pc = "normalized"
        /\ error = ""
        /\ normalized = <<>>

\* C12 witness: a response with another key was normalized with a logger,
\* which was warned
C12_Witness ==
    /\ pc = "normalized"
    /\ result_data.type = "object"
    /\ DOMAIN result_data.val = {"message"}
    /\ logger
    /\ warned
    /\ normalized = <<>>

\* C13: the call never raises, whatever is missing, null or of a wrong type
\* in the response
C13_NeverRaises == Called => (pc # "raised" /\ error = "")

\* the score the path searchScores.aggregatedScore.value leads to, 0.0 when a
\* level is not there
ScoreAt(chunk) ==
    IF /\ HasKey(chunk, "searchScores")
       /\ HasKey(chunk.val["searchScores"], "aggregatedScore")
       /\ HasKey(chunk.val["searchScores"].val["aggregatedScore"], "value")
    THEN chunk.val["searchScores"].val["aggregatedScore"].val["value"]
    ELSE PyFloat(0)

\* C14: the score of each record is the value at
\* searchScores.aggregatedScore.value of its chunk, 0.0 when one of the three
\* levels is absent, and the call does not raise for an absent level
C14_ScoreOrZero ==
    (Called /\ WellFormed(result_data)) =>
        /\ Normalized
        /\ LET paths == Paths(result_data) IN
           \A p \in paths :
               RecordOf(paths, p).score = ScoreAt(ChunkAt(result_data, p))

\* C14 witness: a chunk with searchScores but no aggregatedScore got 0.0
C14_Witness ==
    /\ pc = "normalized"
    /\ WellFormed(result_data)
    /\ \E p \in Paths(result_data) :
          /\ HasKey(ChunkAt(result_data, p), "searchScores")
          /\ ~HasKey(ChunkAt(result_data, p).val["searchScores"], "aggregatedScore")
          /\ RecordOf(Paths(result_data), p).score = PyFloat(0)

\* C15: the score of every record is between 0.0 and 1.0
C15_ScoreInRange ==
    Normalized =>
        \A n \in 1..Len(normalized) :
            normalized[n].score.type = "float" =>
                (0 <= normalized[n].score.val /\ normalized[n].score.val <= Hundredths)

\* C16: every metadata value of every record is a string
C16_MetadataStrings ==
    Normalized =>
        \A n \in 1..Len(normalized) :
            \A key \in DOMAIN normalized[n].metadata :
                normalized[n].metadata[key].type = "str"

\* the key a metadata record is stored under
KeyOf(item) == Get(item.val, "key", "")

\* record j is the last of its key in the list
IsLast(items, j) ==
    \A later \in (j + 1)..Len(items) : KeyOf(items[later]) # KeyOf(items[j])

\* the elements of a value list as strings, with ", " between them
CommaJoined(elements) ==
    Join([i \in 1..Len(elements) |-> StrOf(elements[i])], <<",", " ">>)

\* C17: a record whose value list has one element is mapped to that element,
\* one whose list has two or more to the elements joined with ", " in list
\* order (the record being the last of its key)
C17_UnwrapOrJoin ==
    (Normalized /\ WellFormed(result_data)) =>
        LET paths == Paths(result_data) IN
        \A p \in paths :
            LET items == ItemsOf(ChunkAt(result_data, p)) IN
            \A j \in 1..Len(items) :
                (/\ IsLast(items, j)
                 /\ HasList(items[j], "value")) =>
                    LET elements == items[j].val["value"].val
                        flat == RecordOf(paths, p).metadata[KeyOf(items[j])]
                    IN /\ Len(elements) = 1 => flat = elements[1]
                       /\ Len(elements) > 1 => flat = PyStr(CommaJoined(elements))

\* C17 witness: {'name': ['x'], 'k': ['x', 5]} became {'name': 'x', 'k': 'x, 5'}
C17_Witness ==
    /\ pc = "normalized"
    /\ WellFormed(result_data)
    /\ Len(normalized) = 1
    /\ ItemsOf(ChunkAt(result_data, <<1, 1, 1, 1>>)) =
           << PyObject([key |-> "name", value |-> PyList(<<PyStr(<<"x">>)>>)]),
              PyObject([key |-> "k", value |-> PyList(<<PyStr(<<"x">>), PyInt(5)>>)]) >>
    /\ normalized[1].metadata["name"] = PyStr(<<"x">>)
    /\ normalized[1].metadata["k"] = PyStr(<<"x", ",", " ", "5">>)

\* C18: the flattened mapping has the keys of the records, each with the
\* value made of the last record of that key alone
C18_LastRecordWins ==
    (Normalized /\ WellFormed(result_data)) =>
        LET paths == Paths(result_data) IN
        \A p \in paths :
            LET items == ItemsOf(ChunkAt(result_data, p)) IN
            /\ DOMAIN RecordOf(paths, p).metadata = {KeyOf(items[j]) : j \in 1..Len(items)}
            /\ \A j \in 1..Len(items) :
                  IsLast(items, j) =>
                      RecordOf(paths, p).metadata[KeyOf(items[j])] =
                          FlattenValue(Get(items[j].val, "value", PyList(<<>>)))

\* C18 witness: two records of one key with different values, the mapping
\* holding the value of the second
C18_Witness ==
    /\ pc = "normalized"
    /\ WellFormed(result_data)
    /\ Len(normalized) = 1
    /\ LET items == ItemsOf(ChunkAt(result_data, <<1, 1, 1, 1>>)) IN
       /\ Len(items) = MaxItems
       /\ KeyOf(items[1]) = KeyOf(items[Len(items)])
       /\ items[1] = PyObject([key |-> "name", value |-> PyList(<<PyStr(<<"x">>)>>)])
       /\ items[Len(items)] = PyObject([key |-> "name", value |-> PyStr(<<"y">>)])
       /\ DOMAIN normalized[1].metadata = {"name"}
       /\ normalized[1].metadata["name"] = PyStr(<<"y">>)

--------------------------------------------------------------------------
(* Claims on format_document_qa_prompt *)

\* the i-th block, the label and the content with between them what is given
Block(i, between) ==
    BlockLabel \o IntToStr(i) \o <<"]", ":">> \o between \o normalized[i].content

\* the prompt is the template around the blocks of the chunks in the order
\* supplied, a blank line between two blocks, and around the query as it is
RendersBlocks(between) ==
    prompt = TemplateHead
                 \o Join([i \in 1..Len(normalized) |-> Block(i, between)], <<"\n", "\n">>)
                 \o TemplateMiddle \o query \o TemplateTail

\* C20 as stated: the i-th block is '[Document chunk i]: <content>', label
\* and content on one line
C20_BlockOnOneLine == pc = "prompted" => RendersBlocks(<<" ">>)

\* C20: one block per chunk in the order supplied, the i-th made of the line
\* '[Document chunk i]:' and below it the content, a blank line between
\* blocks, the query verbatim after 'User question: '
C20_LabelLineThenContent == pc = "prompted" => RendersBlocks(<<"\n">>)

\* C20 witness: a prompt of several chunks of different contents and a query
\* holding a brace field
C20_Witness ==
    /\ pc = "prompted"
    /\ Len(normalized) > 2
    /\ normalized[1].content # normalized[2].content
    /\ query = <<"{", "c", "o", "n", "t", "e", "x", "t", "}">>
    /\ RendersBlocks(<<"\n">>)

--------------------------------------------------------------------------
(* Requests in flight together: each step is one pipeline stage of one
   request, on the locals of that request *)

\* the files and the searches of the requests in flight
ConcurrentFiles ==
    {[uploaded |-> TRUE, filename |-> <<"a", ".", "t", "x", "t">>,
      bytes |-> FileBytes(PyStr(<<"a", ".", "\n", "\n", "a">>), PyNone)],
     [uploaded |-> TRUE, filename |-> <<"a", ".", "t", "x", "t">>,
      bytes |-> FileBytes(PyStr(<<"a", ".", " ", "a", ".">>), PyNone)],
     [uploaded |-> TRUE, filename |-> <<"a", ".", "p", "d", "f">>,
      bytes |-> FileBytes(PyNone, PyList(<<PyStr(<<"a", ".">>), PyNone>>))],
     [uploaded |-> TRUE, filename |-> <<"a", ".", "p", "d", "f">>,
      bytes |-> FileBytes(PyNone, PyNone)]}

ConcurrentResponses ==
    {OneRepository(<<PyObject([chunks |-> PyList(cs)])>>) :
        cs \in {<<>>, <<PlacedChunk(1, 1, 1, 1)>>,
                 <<PlacedChunk(1, 1, 1, 2), PlacedChunk(1, 1, 1, 1)>>}}
        \cup {PyObject([results |-> PyNone])}

\* an upload request enters a free slot
StartUpload(r) ==
    /\ requests[r].stage = "free"
    /\ \E f \in ConcurrentFiles :
          requests' = [requests EXCEPT ![r] =
                          [NoRequest EXCEPT !.stage = "upload", !.file = f, !.chunk_size = 1]]

\* extract_text_from_upload on the file of the request
StageExtract(r) ==
    /\ requests[r].stage = "upload"
    /\ LET out == extract_text_from_upload(Filename(requests[r].file), requests[r].file.bytes) IN
       requests' = [requests EXCEPT ![r] =
                       IF HasRaised(out) THEN [@ EXCEPT !.stage = "done"]
                       ELSE [@ EXCEPT !.stage = "text", !.content = out.value]]

\* chunk_document in upload_document of the service
StageChunk(r) ==
    /\ requests[r].stage = "text"
    /\ requests' = [requests EXCEPT ![r] =
                       [@ EXCEPT !.stage = "chunks", !.chunks = StageChunks(requests, r)]]

\* build_document_payload in upload_document of the service
StagePayload(r) ==
    /\ requests[r].stage = "chunks"
    /\ requests' = [requests EXCEPT ![r] =
                       [@ EXCEPT !.stage = "done",
                                 !.payload = build_document_payload(
                                                 Filename(requests[r].file),
                                                 requests[r].chunks, PyNone)]]

\* a chat request enters a free slot; the search has answered
StartChat(r) ==
    /\ requests[r].stage = "free"
    /\ \E q \in Queries, data \in ConcurrentResponses :
          requests' = [requests EXCEPT ![r] =
                          [NoRequest EXCEPT !.stage = "search", !.query = q,
                                            !.result_data = data]]

\* extract_chunks_from_response in chat_with_documents
StageNormalize(r) ==
    /\ requests[r].stage = "search"
    /\ LET out == extract_chunks_from_response(requests[r].result_data, TRUE) IN
       requests' = [requests EXCEPT ![r] =
                       IF HasRaised(out) THEN [@ EXCEPT !.stage = "done"]
                       ELSE [@ EXCEPT !.stage = "normalized", !.normalized = out.value]]

\* build_llm_prompt in chat_with_documents, or the end of a request that
\* found no chunk
StagePrompt(r) ==
    /\ requests[r].stage = "normalized"
    /\ requests' = [requests EXCEPT ![r] =
                       IF NeedsLlm(requests[r].normalized)
                       THEN [@ EXCEPT !.stage = "done",
                                      !.prompt = build_llm_prompt(requests[r].normalized,
                                                                  requests[r].query)]
                       ELSE [@ EXCEPT !.stage = "done"]]

\* the request is answered and its slot is free again
Finish(r) ==
    /\ requests[r].stage = "done"
    /\ requests' = [requests EXCEPT ![r] = NoRequest]

\* no method of the service assigns an attribute of self after __init__
ConcurrentUnchanged ==
    UNCHANGED <<pc, content, chunk_size, chunks, document_name, metadata, payload,
                chatVars, handlerVars, collections, service>>

NextConcurrent ==
    \/ \E r \in 1..NumRequests : StartUpload(r) /\ ConcurrentUnchanged
    \/ \E r \in 1..NumRequests : StageExtract(r) /\ ConcurrentUnchanged
    \/ \E r \in 1..NumRequests : StageChunk(r) /\ ConcurrentUnchanged
    \/ \E r \in 1..NumRequests : StagePayload(r) /\ ConcurrentUnchanged
    \/ \E r \in 1..NumRequests : StartChat(r) /\ ConcurrentUnchanged
    \/ \E r \in 1..NumRequests : StageNormalize(r) /\ ConcurrentUnchanged
    \/ \E r \in 1..NumRequests : StagePrompt(r) /\ ConcurrentUnchanged
    \/ \E r \in 1..NumRequests : Finish(r) /\ ConcurrentUnchanged

SpecConcurrent == Init /\ [][NextConcurrent]_vars

--------------------------------------------------------------------------
(* Claims on build_llm_prompt *)

\* the prompt starts with the template up to the context block and ends
\* with the template from 'User question: ' on, the query in it as given
AroundContext(context) ==
    /\ Len(prompt) = Len(TemplateHead) + Len(context) + Len(TemplateMiddle)
                         + Len(query) + Len(TemplateTail)
    /\ SubSeq(prompt, 1, Len(TemplateHead)) = TemplateHead
    /\ SubSeq(prompt, Len(TemplateHead) + 1, Len(TemplateHead) + Len(context)) = context
    /\ SubSeq(prompt, Len(TemplateHead) + Len(context) + 1, Len(prompt))
           = TemplateMiddle \o query \o TemplateTail

\* C21: build_llm_prompt returns a prompt string for every chunk list and
\* every query, braces in the query included; for the empty list the prompt
\* is the fixed template with an empty context block, the query in its place
C21_TotalPrompt ==
    pc = "composed" =>
        /\ prompt \in Seq(STRING)
        /\ normalized = <<>> => AroundContext(<<>>)
        /\ normalized # <<>> =>
               AroundContext(Join([i \in 1..Len(normalized) |-> Block(i, <<"\n">>)],
                                  <<"\n", "\n">>))

\* C21 witness: the prompt of no chunk at all and of a query that reads as a
\* field of the template
C21_Witness ==
    /\ pc = "composed"
    /\ normalized = <<>>
    /\ query = <<"{", "c", "o", "n", "t", "e", "x", "t", "}">>
    /\ prompt = TemplateHead \o TemplateMiddle \o query \o TemplateTail

--------------------------------------------------------------------------
(* Claims on _chunk_by_sentences and on the fallback of chunk_document *)

\* position k of s lies in a run of whitespace that directly follows a
\* sentence end
InSplitRun(s, k) ==
    \E i \in 2..k : s[i - 1] \in SentenceEnd /\ \A m \in i..k : IsSpace(s[m])

\* the positions where such a run starts and where it ends
RunStarts(s) == {k \in 1..Len(s) : InSplitRun(s, k) /\ ~InSplitRun(s, k - 1)}

RunEnds(s) ==
    {k \in 1..Len(s) : InSplitRun(s, k) /\ (k = Len(s) \/ ~InSplitRun(s, k + 1))}

\* the j-th smallest number of S
Nth(S, j) == CHOOSE x \in S : Cardinality({y \in S : y < x}) = j - 1

\* the pieces of s between the splitting runs, in order
Pieces(s) ==
    LET n == Cardinality(RunEnds(s)) + 1 IN
    [j \in 1..n |->
        SubSeq(s, IF j = 1 THEN 1 ELSE Nth(RunEnds(s), j - 1) + 1,
                  IF j = n THEN Len(s) ELSE Nth(RunStarts(s), j) - 1)]

\* pieces[from..to]
Slice(pieces, from, to) == [j \in 1..(to - from + 1) |-> pieces[from + j - 1]]

\* the chunks made of pieces when the pieces numbered in breaks each start
\* a new chunk
Packed(pieces, breaks) ==
    LET starts == {1} \cup breaks
        m == Cardinality(starts)
    IN [c \in 1..m |->
           Join(Slice(pieces, Nth(starts, c),
                      IF c = m THEN Len(pieces) ELSE Nth(starts, c + 1) - 1),
                <<" ">>)]

\* piece k starts a new chunk exactly when it does not fit the running one
GreedyBreaks(pieces, breaks, size) ==
    \A k \in 2..Len(pieces) :
        LET first == CHOOSE b \in {1} \cup breaks :
                         b < k /\ \A x \in breaks : x < k => x <= b
        IN k \in breaks <=> SumLen(Slice(pieces, first, k - 1)) + Len(pieces[k]) > size

\* C27: _chunk_by_sentences splits at every whitespace run that directly
\* follows '.', '!' or '?', the mark staying at the end of the sentence
\* before; a sentence joins the running chunk iff the summed sentence
\* lengths stay within chunk_size, the first one always; the sentences of a
\* chunk are joined by one space, so the chunks hold the pieces in order
C27_SentencePacking ==
    pc = "sentences" =>
        LET pieces == Pieces(content) IN
        /\ \A j \in 1..(Len(pieces) - 1) : pieces[j][Len(pieces[j])] \in SentenceEnd
        /\ \E breaks \in SUBSET (2..Len(pieces)) :
              /\ GreedyBreaks(pieces, breaks, chunk_size)
              /\ chunks = Packed(pieces, breaks)

\* C27 witness: three sentences, two of them parted by a run of two
\* whitespace characters, packed into two chunks of which one holds two
\* sentences with one space between them
C27_Witness ==
    /\ pc = "sentences"
    /\ Len(Pieces(content)) = 3
    /\ \E k \in 1..(Len(content) - 1) : InSplitRun(content, k) /\ InSplitRun(content, k + 1)
    /\ Len(chunks) = 2
    /\ \/ chunks[1] = Pieces(content)[1] \o <<" ">> \o Pieces(content)[2]
       \/ chunks[2] = Pieces(content)[2] \o <<" ">> \o Pieces(content)[3]

--------------------------------------------------------------------------
(* Claims on the upload request *)

\* the name ends in '.pdf', in whatever case
IsPdfName(name) ==
    /\ Len(name) >= 4
    /\ name[Len(name) - 3] = "."
    /\ name[Len(name) - 2] \in {"p", "P"}
    /\ name[Len(name) - 1] \in {"d", "D"}
    /\ name[Len(name)] \in {"f", "F"}

IsBlank(s) == \A k \in 1..Len(s) : IsSpace(s[k])

\* the text of a page, '' for a page without text
PageText(page) == IF page.type = "none" THEN <<>> ELSE page.val

IsUtf8(bytes) == bytes.utf8.type = "str"

IsPdf(bytes) == bytes.pdf.type = "list"

\* the bytes are a PDF none of whose pages holds a character other than
\* whitespace
PdfWithoutText(bytes) ==
    IsPdf(bytes) /\ \A k \in 1..Len(bytes.pdf.val) : IsBlank(PageText(bytes.pdf.val[k]))

\* the texts of the pages, a blank line between two pages
PdfText(bytes) ==
    Join([k \in 1..Len(bytes.pdf.val) |-> PageText(bytes.pdf.val[k])], BlankLine)

\* an upload request whose extraction is over: it gave a text, or the
\* request was answered before any call of the service
UploadExtracted == file.uploaded /\ pc # "upload received"

UploadRejected == file.uploaded /\ pc = "responded" /\ calls = <<>>

\* the message of the ValueError the file is refused with, "" when it is not
FileError(upload) ==
    IF IsPdfName(Filename(upload))
    THEN IF ~IsPdf(upload.bytes) THEN PdfFailedMessage
         ELSE IF PdfWithoutText(upload.bytes) THEN PdfEmptyMessage
         ELSE ""
    ELSE IF ~IsUtf8(upload.bytes) THEN NotUtf8Message ELSE ""

\* C24: an upload whose text extraction fails is answered HTTP 400 with the
\* message of the extraction error, at once: the request makes no call to
\* the service, so no collection is created and nothing is ingested, and
\* the answer is never a 500
C24_ExtractionFailureIs400 ==
    [][/\ (UploadExtracted /\ FileError(file) # "") =>
              /\ pc = "responded"
              /\ http = [status |-> 400, detail |-> FileError(file)]
              /\ calls = <<>>
              /\ result = NoResult
       /\ (file.uploaded /\ FileError(file) # "") => collections' = collections
      ]_vars

\* C24 witness: a file named as a PDF whose pages hold no text, refused with
\* the message on empty PDFs
C24_Witness ==
    /\ pc = "responded"
    /\ file.uploaded
    /\ IsPdfName(file.filename)
    /\ IsPdf(file.bytes) /\ Len(file.bytes.pdf.val) = 2
    /\ http.status = 400
    /\ http.detail = PdfEmptyMessage

\* C25 as stated: whatever the filename, the call fails exactly when the
\* bytes are neither UTF-8 text nor a parseable PDF or are a PDF without
\* text, and returns the text of the bytes in every other case
C25_FailsByContentAlone ==
    UploadExtracted =>
        LET unsupported == \/ ~IsUtf8(file.bytes) /\ ~IsPdf(file.bytes)
                           \/ PdfWithoutText(file.bytes)
        IN  /\ UploadRejected <=> unsupported
            /\ ~UploadRejected =>
                   content = IF IsPdf(file.bytes) THEN PdfText(file.bytes)
                             ELSE file.bytes.utf8.val

\* C25: the extension alone picks the decoder.  A name ending in '.pdf', in
\* whatever case, fails exactly when the bytes are no parseable PDF or the
\* text of all pages is blank, and gives the page texts joined by a blank
\* line otherwise; any other name fails exactly when the bytes are not
\* valid UTF-8, and gives the decoded text otherwise.  So bytes that are
\* neither fail under every name
C25_FailsByExtension ==
    UploadExtracted =>
        /\ IF IsPdfName(Filename(file))
           THEN /\ UploadRejected <=> (~IsPdf(file.bytes) \/ PdfWithoutText(file.bytes))
                /\ ~UploadRejected => content = PdfText(file.bytes)
           ELSE /\ UploadRejected <=> ~IsUtf8(file.bytes)
                /\ ~UploadRejected => content = file.bytes.utf8.val
        /\ (~IsUtf8(file.bytes) /\ ~IsPdf(file.bytes)) => UploadRejected

\* C25 witness: a PDF named in mixed case, one page without text and one
\* with text, and the text extracted from it
C25_Witness ==
    /\ pc = "text extracted"
    /\ file.filename = <<"A", ".", "P", "d", "F">>
    /\ IsPdf(file.bytes) /\ Len(file.bytes.pdf.val) = 2
    /\ file.bytes.pdf.val[1].type = "none"
    /\ content = <<"\n", "\n", "a", ".">>

\* the chunks of the ingest payload
PayloadChunks == payload.documents[1].chunks

\* an upload request whose text was chunked and posted
UploadPosted == file.uploaded /\ pc \in {"document uploaded", "responded"} /\ result.returned

C29_CollectionOutlivesFailedIngest ==
    [][/\ (file.uploaded /\ calls # <<>>) =>
              /\ calls[1] \in {"create collection", "create collection raises"}
              /\ Len(calls) <= 2
              /\ Len(calls) = 2 =>
                    /\ calls[1] = "create collection"
                    /\ calls[2] \in {"ingest", "ingest raises"}
                    /\ collections >= 1
              /\ (pc = "responded" /\ calls[Len(calls)] = "ingest raises") =>
                    /\ http.status = 500
                    /\ collections >= 1
              /\ (pc = "responded" /\ calls[1] = "create collection raises") =>
                    http.status = 500
       /\ (file.uploaded /\ pc = "responded") => (pc' = "idle" /\ collections' = collections)
      ]_vars

\* C29 witness: the ingest failed, the answer is 500 and the collection is
\* there
C29_Witness ==
    /\ pc = "responded"
    /\ calls = <<"create collection", "ingest raises">>
    /\ http.status = 500
    /\ collections = 1

--------------------------------------------------------------------------
(* Claims on the chat request *)

\* the calls of the request so far that initialise or invoke the language
\* model, raising or not
LlmCallsMade ==
    {k \in 1..Len(calls) :
        calls[k] \in {"init llm", "init llm raises", "invoke llm", "invoke llm raises"}}

\* chat_with_documents returned, or what it returned was answered
ChatReturned == ~file.uploaded /\ pc \in {"service returned", "responded"} /\ result.returned

\* the search went through and its response was normalized without raising
ChunksNormalized ==
    /\ ~file.uploaded
    /\ pc \in {"chunks normalized", "prompt built", "service returned", "responded"}
    /\ calls # <<>> /\ calls[1] = "search"
    /\ error = ""

\* C22: the language model is initialised or invoked, and a prompt is
\* composed, only when normalization gave at least one chunk; with no chunk
\* the request makes no call but the search and answers the fixed 'No
\* relevant information found...' text, chunks_found 0, success true
C22_LlmOnlyWithChunks ==
    /\ (LlmCallsMade # {} \/ prompt # <<>>) => (ChunksNormalized /\ Len(normalized) >= 1)
    /\ (ChunksNormalized /\ normalized = <<>>) =>
          /\ calls = <<"search">>
          /\ prompt = <<>>
          /\ pc \in {"service returned", "responded"} =>
                /\ result.success
                /\ result.chunks_found = 0
                /\ result.chunks = <<>>
                /\ result.response_text = NoAnswerText
          /\ pc = "responded" =>
                /\ http.status = 200
                /\ http.response = NoAnswerText
                /\ http.chunks_found = 0

\* C22 witness: a search response with results but no chunk in them, and
\* the fixed answer given for it
C22_Witness ==
    /\ pc = "responded"
    /\ ChunksNormalized
    /\ HasKey(result_data, "results")
    /\ ~warned
    /\ normalized = <<>>
    /\ calls = <<"search">>
    /\ http.status = 200
    /\ http.response = NoAnswerText

\* C23 as stated: a search response that has not the expected shape, at the
\* top or at a nested level, still ends in a ChatResponse with no chunk and
\* the 'no relevant information found' answer, success true
C23_MalformedStillAnswers ==
    (/\ ~file.uploaded
     /\ pc = "responded"
     /\ calls # <<>> /\ calls[1] = "search"
     /\ ~WellFormed(result_data)) =>
        /\ http.status = 200
        /\ http.response = NoAnswerText
        /\ http.chunks = <<>>
        /\ result.success

\* the language model was called and raised
LlmRaised ==
    \E k \in 1..Len(calls) : calls[k] \in {"init llm raises", "invoke llm raises"}

--------------------------------------------------------------------------
(* Claims on requests in flight together *)

\* what request q has computed so far is what its own inputs give when the
\* stages run one after the other with nothing else in flight
AsAlone(q) ==
    LET text == extract_text_from_upload(Filename(q.file), q.file.bytes)
        found == extract_chunks_from_response(q.result_data, TRUE)
    IN  /\ q.file.uploaded =>
              /\ q.stage = "done" /\ q.content = <<>> /\ q.chunks = <<>> => HasRaised(text)
              /\ q.content # <<>> => (~HasRaised(text) /\ q.content = text.value)
              /\ q.chunks # <<>> => q.chunks = chunk_document(text.value, q.chunk_size)
              /\ q.payload # <<>> =>
                    q.payload = build_document_payload(
                                    Filename(q.file),
                                    chunk_document(text.value, q.chunk_size), PyNone)
              /\ q.stage \in {"chunks", "done"} /\ ~HasRaised(text) => q.chunks # <<>>
              /\ q.stage = "done" /\ ~HasRaised(text) => q.payload # <<>>
        /\ (~q.file.uploaded /\ q.stage # "free") =>
              /\ q.normalized # <<>> => (~HasRaised(found) /\ q.normalized = found.value)
              /\ q.prompt # <<>> => q.prompt = build_llm_prompt(found.value, q.query)
              /\ (q.stage = "done" /\ ~HasRaised(found) /\ found.value # <<>>) =>
                    /\ q.normalized = found.value
                    /\ q.prompt # <<>>

====
